---- MODULE Spec2Model ----
(***************************************************************************)
(* Session / container lifecycle manager and MCP sidecar manager of the    *)
(* Monadical container tool (mcontainer/container.py, mcontainer/mcp.py,   *)
(* mcontainer/config.py), as a state machine over                          *)
(*   - the persisted MCP configuration list (user config key "mcps"),      *)
(*   - the container runtime (containers and networks),                    *)
(*   - the Session Store,                                                  *)
(*   - the host file system under ~/.mc/projects and the working directory,*)
(*   - the worker threads of close_all_sessions, and                       *)
(*   - the driver registry with the configuration file it is loaded from.  *)
(* Every public method is one action; what the method returns (or that it  *)
(* raised) is recorded in the variable last.                               *)
(*                                                                         *)
(* The model covers processes whose Docker client connected at            *)
(* construction (ContainerManager exits otherwise, container.py:34-41).    *)
(***************************************************************************)
EXTENDS Integers, Sequences, FiniteSets, TLC

VARIABLES
    mcps,        \* user config "mcps": the ordered list of MCP configurations
    containers,  \* the runtime's containers (a set of records)
    networks,    \* the runtime's networks (a set of names)
    store,       \* the Session Store: session id -> saved session record
    nextCid,     \* the runtime's source of fresh container ids
    last,        \* the last call: operation, arguments, result
    host,        \* the host: project configuration directories, working directory
    closeAll,    \* close_all_sessions in progress: its listing and worker threads
    reg          \* config.yaml, the driver directories and the loaded registry

vars == <<mcps, containers, networks, store, nextCid, last, host, closeAll, reg>>

----------------------------------------------------------------------------
(* Bounds *)

\* at most this many containers are ever created in one behaviour
MaxCid == 2
\* host ports range over 5101 .. 5100 + MaxPortOffset
MaxPortOffset == 3

(* Program constants *)

\* highest_port = 5100 in add_proxy_mcp
BasePort == 5100
\* proxy_options.get("sse_port", 8080)
DefaultSsePort == 8080

McpNames == {"a", "b"}
\* the remaining fields of a definition (url/headers, image/command/env,
\* base_image/proxy_image/proxy_options): two distinguishable bundles
Defs == {1, 2}
\* host_port arguments: None (auto-assign), 0, or a port number below the
\* highest port an entry can get
NoPort == -1
HostPortArgs == {NoPort, 0} \cup ((BasePort + 1) .. (BasePort + MaxPortOffset - 1))

NoRet == "none"

----------------------------------------------------------------------------
(* The MCP configuration list (mcp.py) *)

RECURSIVE FilterOut(_, _)
\* [mcp for mcp in mcps if mcp.get("name") != name]
FilterOut(s, name) ==
    IF s = <<>> THEN <<>>
    ELSE IF Head(s).name = name THEN FilterOut(Tail(s), name)
         ELSE <<Head(s)>> \o FilterOut(Tail(s), name)

\* the names configured, and whether one is
ConfiguredNames(cfgs) == {cfgs[i].name : i \in DOMAIN cfgs}
HasMcp(cfgs, name) == name \in ConfiguredNames(cfgs)

\* get_mcp: the first entry of that name (callers test HasMcp first)
get_mcp(cfgs, name) ==
    cfgs[CHOOSE i \in DOMAIN cfgs :
            /\ cfgs[i].name = name
            /\ \A j \in DOMAIN cfgs : cfgs[j].name = name => i <= j]

\* proxy_options.get("sse_port", 8080): bundle 1 leaves it unset, bundle 2 sets 9090
SsePort(cfg) == IF cfg.def = 1 THEN DefaultSsePort ELSE 9090

RemoteMCP(name, d) == [name |-> name, type |-> "remote", def |-> d, host_port |-> 0]
DockerMCP(name, d) == [name |-> name, type |-> "docker", def |-> d, host_port |-> 0]
ProxyMCP(name, d, p) == [name |-> name, type |-> "proxy", def |-> d, host_port |-> p]

RECURSIVE HighestPort(_, _)
\* the scan of add_proxy_mcp: the highest host_port of the proxy entries, from 5100
HighestPort(s, acc) ==
    IF s = <<>> THEN acc
    ELSE LET m == Head(s)
             a == IF m.type = "proxy" /\ m.host_port # 0 /\ m.host_port > acc
                  THEN m.host_port ELSE acc
         IN HighestPort(Tail(s), a)

\* "host_port = highest_port + 1" (mcp.py:121-136)
NextPortBase(cfgs) == BasePort + 1
NextPort(cfgs) == HighestPort(cfgs, BasePort) + 1

\* the list after add_*_mcp: remove the entry of the same name, append the new one
AddedDup(cfgs, entry) == Append(cfgs, entry)
Added(cfgs, entry) == Append(FilterOut(cfgs, entry.name), entry)

----------------------------------------------------------------------------
(* The container runtime *)

McpContainerName(name) == <<"mc_mcp", name>>
McpNetwork == "mc-mcp-network"

Named(conts, cname) == {c \in conts : c.name = cname}
Exists(conts, cname) == Named(conts, cname) # {}
ByName(conts, cname) == CHOOSE c \in conts : c.name = cname
ById(conts, id) == CHOOSE c \in conts : c.id = id
Ids(conts) == {c.id : c \in conts}

NoBind == [sse |-> 0, host |-> 0]
\* no volume bound at /mc-config
NoConfig == [home |-> "", md5 |-> "", leaf |-> ""]
NoEnv == [count |-> -1, names |-> <<>>, idx |-> <<>>]

\* a container the MCP manager runs (containers.run in start_mcp)
McpContainer(id, name, cfg) ==
    [id |-> id, name |-> McpContainerName(name), kind |-> "mcp",
     status |-> "running", type |-> cfg.type,
     \* the image, command and environment the container was run from
     def |-> cfg.def,
     bind |-> IF cfg.type = "proxy" /\ cfg.host_port # 0
              THEN [sse |-> SsePort(cfg), host |-> cfg.host_port] ELSE NoBind,
     \* network.connect(container, aliases=[name]) on the shared MCP network
     nets |-> {McpNetwork}, alias |-> name,
     sid |-> "", driver |-> "", mcpsLabel |-> <<>>, env |-> NoEnv,
     project |-> "", config |-> NoConfig, volumes |-> {}, url |-> ""]

SetStatus(conts, id, st) ==
    {IF c.id = id THEN [c EXCEPT !.status = st] ELSE c : c \in conts}

----------------------------------------------------------------------------
(* MCPManager operations as functions of the state (mcp.py).  Each yields  *)
(* the outcome of the call and the runtime it leaves.  fail: the runtime   *)
(* call of this invocation that can fail (image pull/build, container      *)
(* start/stop/restart, inspect) does fail.                                 *)

Outcome(exc, ret, cid, note, conts, nets, nc) ==
    [exc |-> exc, ret |-> ret, cid |-> cid, note |-> note,
     containers |-> conts, networks |-> nets, nextCid |-> nc]

\* the port-binding test of start_mcp (mcp.py:205-220)
NeedsRecreateNever(cfg, c) == FALSE
NeedsRecreate(cfg, c) ==
    /\ cfg.type = "proxy"
    /\ cfg.host_port # 0
    /\ \/ c.bind.host = 0
       \/ c.bind.sse # SsePort(cfg)
       \/ c.bind.host # cfg.host_port

\* start_mcp from the point where no container of that name is left
StartMcpCreate(cfg, name, conts, nets, nc, fail, note) ==
    LET nets1 == nets \cup {McpNetwork}
    IN  IF cfg.type = "remote"
        THEN Outcome(FALSE, "not_applicable", 0, note, conts, nets1, nc)
        ELSE IF fail
        THEN Outcome(TRUE, NoRet, 0, "image", conts, nets1, nc)
        ELSE Outcome(FALSE, "running", nc, note,
                     conts \cup {McpContainer(nc, name, cfg)}, nets1, nc + 1)

start_mcp(cfgs, name, conts, nets, nc, fail) ==
    IF ~HasMcp(cfgs, name)
    THEN Outcome(TRUE, NoRet, 0, "ValueError", conts, nets, nc)
    ELSE
    LET cfg == get_mcp(cfgs, name)
        cname == McpContainerName(name)
    IN  IF Exists(conts, cname)
        THEN LET c == ByName(conts, cname)
             IN  IF ~NeedsRecreate(cfg, c)
                 THEN IF c.status # "running"
                      THEN IF fail
                           THEN Outcome(TRUE, NoRet, 0, "start", conts, nets, nc)
                           ELSE Outcome(FALSE, "running", c.id, "reused",
                                        SetStatus(conts, c.id, "running"), nets, nc)
                      ELSE Outcome(FALSE, "running", c.id, "reused", conts, nets, nc)
                 ELSE StartMcpCreate(cfg, name, conts \ {c}, nets, nc, fail,
                                     "recreated")
        ELSE StartMcpCreate(cfg, name, conts, nets, nc, fail, "created")

\* "Only stop if it's running" (mcp.py:482)
ShouldStopAlways(c) == TRUE
ShouldStop(c) == c.status = "running"

stop_mcp(cfgs, name, conts, nets, nc, fail) ==
    IF ~HasMcp(cfgs, name)
    THEN Outcome(TRUE, NoRet, 0, "ValueError", conts, nets, nc)
    ELSE
    LET cfg == get_mcp(cfgs, name)
        cname == McpContainerName(name)
    IN  IF cfg.type = "remote"
        THEN Outcome(FALSE, "True", 0, "remote", conts, nets, nc)
        ELSE IF ~Exists(conts, cname)
        THEN Outcome(FALSE, "False", 0, "absent", conts, nets, nc)
        ELSE LET c == ByName(conts, cname)
             IN  IF ShouldStop(c)
                 THEN IF fail
                      THEN Outcome(FALSE, "False", c.id, "error", conts, nets, nc)
                      ELSE Outcome(FALSE, "True", c.id, "stopped",
                                   SetStatus(conts, c.id, "exited"), nets, nc)
                 ELSE Outcome(FALSE, "False", c.id, "notrunning", conts, nets, nc)

\* restart_mcp (mcp.py:495-530): container.restart on the existing container,
\* start_mcp when there is none
restart_mcp_as_start(cfgs, name, conts, nets, nc, fail) ==
    start_mcp(cfgs, name, conts, nets, nc, fail)
restart_mcp(cfgs, name, conts, nets, nc, fail) ==
    IF ~HasMcp(cfgs, name)
    THEN Outcome(TRUE, NoRet, 0, "ValueError", conts, nets, nc)
    ELSE
    LET cfg == get_mcp(cfgs, name)
        cname == McpContainerName(name)
    IN  IF cfg.type = "remote"
        THEN Outcome(FALSE, "not_applicable", 0, "remote", conts, nets, nc)
        ELSE IF ~Exists(conts, cname)
        THEN start_mcp(cfgs, name, conts, nets, nc, fail)
        ELSE LET c == ByName(conts, cname)
             IN  IF fail
                 THEN Outcome(TRUE, NoRet, 0, "restart", conts, nets, nc)
                 ELSE Outcome(FALSE, "running", c.id, "restarted",
                              SetStatus(conts, c.id, "running"), nets, nc)

\* the "except Exception" handlers of get_mcp_status / get_mcp_logs
\* (mcp.py:604-610, 637-639): a runtime error becomes a result
OnRuntimeErrorRaise(ret, conts, nets, nc) ==
    Outcome(TRUE, NoRet, 0, "error", conts, nets, nc)
OnRuntimeError(ret, conts, nets, nc) ==
    Outcome(FALSE, ret, 0, "error", conts, nets, nc)

\* the first published port of the container as get_mcp_status reports it
\* (0: no port reported)
StatusPort(c) == c.bind.host

get_mcp_status(cfgs, name, conts, nets, nc, fail) ==
    IF ~HasMcp(cfgs, name)
    THEN Outcome(TRUE, NoRet, 0, "ValueError", conts, nets, nc)
    ELSE
    LET cfg == get_mcp(cfgs, name)
        cname == McpContainerName(name)
    IN  IF cfg.type = "remote"
        THEN Outcome(FALSE, "not_applicable", 0, "remote", conts, nets, nc)
        ELSE IF fail
        THEN OnRuntimeError("failed", conts, nets, nc)
        ELSE IF ~Exists(conts, cname)
        THEN Outcome(FALSE, "not_found", 0, "absent", conts, nets, nc)
        ELSE LET c == ByName(conts, cname)
             IN  Outcome(FALSE,
                         IF c.status = "running" THEN "running" ELSE "stopped",
                         c.id, "found", conts, nets, nc)

get_mcp_logs(cfgs, name, conts, nets, nc, fail) ==
    IF ~HasMcp(cfgs, name)
    THEN Outcome(TRUE, NoRet, 0, "ValueError", conts, nets, nc)
    ELSE
    LET cfg == get_mcp(cfgs, name)
        cname == McpContainerName(name)
    IN  IF cfg.type = "remote"
        THEN Outcome(FALSE, "msg_remote", 0, "remote", conts, nets, nc)
        ELSE IF fail
        THEN OnRuntimeError("msg_error", conts, nets, nc)
        ELSE IF ~Exists(conts, cname)
        THEN Outcome(FALSE, "msg_not_found", 0, "absent", conts, nets, nc)
        ELSE Outcome(FALSE, "logs", ByName(conts, cname).id, "found",
                     conts, nets, nc)

----------------------------------------------------------------------------
(* The Session Store (session id -> saved record) *)

HasSession(st, sid) == sid \in DOMAIN st
get_session(st, sid) == st[sid]
\* self.config.sessions[session_id] = session_data
add_session(st, sid, data) ==
    [s \in DOMAIN st \cup {sid} |-> IF s = sid THEN data ELSE st[s]]
\* if session_id in self.config.sessions: del self.config.sessions[session_id]
remove_session_keep(st, sid) == st
remove_session(st, sid) == [s \in DOMAIN st \ {sid} |-> st[s]]

----------------------------------------------------------------------------
(* ContainerManager (container.py) *)

DefaultNetwork == "mc-network"
Drivers == {"goose"}
DriverArgs == Drivers \cup {"nodriver"}
SessionIds == {"s1", "s2"}
\* session_name arguments; "" is None
SessionNameArgs == {"", "n1", "n2"}
\* the networks argument
NetworkArgs == {<<>>, <<"net1">>, <<"net1", "net2">>}
\* the mcp argument: lists of at most two names
McpListArgs == {<<>>} \cup {<<x>> : x \in McpNames}
                     \cup {<<x, y>> : x \in McpNames, y \in McpNames}

\* session_name = f"mc-{session_id}" when none is given
SessionName(req, sid) == IF req = "" THEN <<"mc-", sid>> ELSE <<"user", req>>

\* f"mc-mcp-{mcp_name}-network"
DedicatedNetwork(name) ==
    CASE name = "a" -> "mc-mcp-a-network"
      [] name = "b" -> "mc-mcp-b-network"
      [] OTHER -> "mc-mcp-x-network"

\* list_sessions: one Session per container labelled mc.session with an id label
SessionStatusRunning(c) == "running"
SessionStatus(c) ==
    IF c.status = "exited" THEN "stopped"
    ELSE IF c.status = "created" THEN "creating" ELSE "running"
list_sessions_unfiltered(conts) ==
    {[id |-> c.sid, name |-> c.name, container_id |-> c.id,
      status |-> SessionStatus(c)] : c \in conts}
list_sessions(conts) ==
    {[id |-> c.sid, name |-> c.name, container_id |-> c.id,
      status |-> SessionStatus(c)] : c \in {x \in conts : x.kind = "session" /\ x.sid # ""}}

\* the MCP_<idx>_* variables of one attached MCP (container.py:361-396, 411-426)
\* keys: the variables assigned; the URL of a containerized MCP is
\* http://<HOST>:<PORT>/sse, written 0 here
LocalKeys == {"HOST", "PORT", "URL", "CONTAINER_URL", "TYPE", "NAME"}
RemoteKeys == {"URL", "TYPE", "NAME"}
McpEnvVarsLocal(cfg, name, port) ==
    [NAME |-> name, TYPE |-> cfg.type, HOST |-> name, PORT |-> port, URL |-> 0,
     keys |-> LocalKeys]
McpEnvVars(cfg, name, port) ==
    IF cfg.type = "remote"
    THEN [NAME |-> name, TYPE |-> "remote", HOST |-> "", PORT |-> 0, URL |-> cfg.def,
          keys |-> RemoteKeys]
    ELSE [NAME |-> name, TYPE |-> cfg.type, HOST |-> name, PORT |-> port, URL |-> 0,
          keys |-> LocalKeys]

\* next(iter(mcp_status.get("ports", {}).values()), 8080)
EnvPort(conts, name) ==
    IF Exists(conts, McpContainerName(name))
       /\ StatusPort(ByName(conts, McpContainerName(name))) # 0
    THEN StatusPort(ByName(conts, McpContainerName(name)))
    ELSE DefaultSsePort

\* one effect of a create_session execution, in the order of execution
Step(k, n) == [k |-> k, n |-> n]

\* one iteration of "for mcp_name in mcps_to_process" (container.py:334-426);
\* st: mcp_names, the MCP_<idx>_* variables set so far, the runtime and
\* the effects so far
ProcessMcp(cfgs, name, st, fail) ==
    IF ~HasMcp(cfgs, name) THEN st
    ELSE
    LET cfg == get_mcp(cfgs, name)
        names1 == Append(st.names, name)
        i == Len(names1) - 1
        WithVars(port) ==
            [j \in DOMAIN st.idx \cup {i} |->
                IF j = i THEN McpEnvVars(cfg, name, port) ELSE st.idx[j]]
    IN  IF cfg.type \in {"docker", "proxy"}
        THEN LET r == start_mcp(cfgs, name, st.containers, st.networks,
                                st.nextCid, fail)
                 IN  [names |-> names1,
                  idx |-> IF r.exc THEN st.idx
                          ELSE WithVars(EnvPort(r.containers, name)),
                  steps |-> IF r.exc THEN Append(st.steps, Step("start_mcp", name))
                            ELSE st.steps \o <<Step("start_mcp", name),
                                               Step("env", name)>>,
                  failed |-> IF r.exc THEN st.failed \cup {name} ELSE st.failed,
                  started |-> IF r.exc THEN st.started ELSE st.started \cup {name},
                  containers |-> r.containers, networks |-> r.networks,
                  nextCid |-> r.nextCid]
        ELSE [st EXCEPT !.names = names1, !.idx = WithVars(0),
                        !.steps = Append(@, Step("env", name))]

RECURSIVE ProcessMcps(_, _, _, _, _)
\* the loop over the mcp argument; fails: the positions whose start_mcp fails
ProcessMcps(cfgs, list, pos, st, fails) ==
    IF pos > Len(list) THEN st
    ELSE ProcessMcps(cfgs, list, pos + 1,
                     ProcessMcp(cfgs, list[pos], st, pos \in fails), fails)

\* MCP_COUNT, MCP_NAMES and the indexed variables (container.py:428-435)
McpEnv(st) ==
    IF st.names # <<>>
    THEN [count |-> Len(st.names), names |-> st.names, idx |-> st.idx]
    ELSE [count |-> -1, names |-> <<>>, idx |-> st.idx]

\* the project arguments: "" is None, a local directory, a Git repository URL
LocalDirs == {"/w/p1", "/w/p2"}
ProjectArgs == {"", "/w/p1", "git1"}

\* os.path.isdir(os.path.expanduser(project))
IsLocalDirectory(project) == project \in LocalDirs

\* project_id of _get_project_config_path: the working directory when no
\* project is given (container.py:66-72)
ProjectIdCwd(project, cwd) == cwd
ProjectId(project, cwd) == IF project = "" THEN cwd ELSE project

\* mc_home / "projects" / md5(project_id).hexdigest() / "config"
ConfigPath(project_id) ==
    [home |-> ".mc/projects", md5 |-> project_id, leaf |-> "config"]

\* _get_project_config_path (container.py:54-84): the path, and the
\* directories on disk after mkdir(exist_ok=True)
get_project_config_path(h, project) ==
    LET path == ConfigPath(ProjectId(project, h.cwd))
    IN  [path |-> path, dirs |-> h.dirs \cup {path}]

\* "Clear project for container environment since we're mounting"
\* (container.py:235-241): the project the rest of create_session sees
MountedProject(project, mount_local) ==
    IF IsLocalDirectory(project) /\ mount_local THEN "" ELSE project

\* session_volumes[local_dir] = /app when a local directory is mounted
AppMount(project, mount_local) ==
    IF IsLocalDirectory(project) /\ mount_local THEN project ELSE ""

\* the container path of the project
AppPath == "/app"
\* the volumes arguments: mappings from a host path to the container path it
\* is bound at, in the order of the dict; a container path is bound once
VolumeHosts == {"/w/p1", "/w/v1"}
VolumeBinds == {AppPath, "/data"}
Volume(host_path, bind) == [host |-> host_path, bind |-> bind]
VolumeArgs ==
    {<<>>}
    \cup {<<Volume(h, b)>> : h \in VolumeHosts, b \in VolumeBinds}
    \cup {vs \in {<<Volume(h1, b1), Volume(h2, b2)>> :
                      h1 \in VolumeHosts, h2 \in VolumeHosts,
                      b1 \in VolumeBinds, b2 \in VolumeBinds} :
             vs[1].host # vs[2].host /\ vs[1].bind # vs[2].bind}
NoMounts == [volumes |-> {}, url |-> ""]

\* session_volumes[host_path] = mount_spec and del session_volumes[local_dir]:
\* session_volumes is a dict keyed by the host path
SetVolume(vols, v) == {w \in vols : w.host # v.host} \cup {v}
DelVolume(vols, host_path) == {w \in vols : w.host # host_path}

\* "Add user-specified volumes" (container.py:248-263); local_dir is the
\* directory mounted automatically, "" when there is none
RECURSIVE AddVolumes(_, _, _)
AddVolumes(vols, volumes, local_dir) ==
    IF volumes = <<>> THEN vols
    ELSE LET v == Head(volumes)
             kept == IF v.bind = AppPath /\ local_dir # ""
                     THEN DelVolume(vols, local_dir) ELSE vols
         IN  AddVolumes(SetVolume(kept, v), Tail(volumes), local_dir)

\* env_vars["MC_PROJECT_URL"] = project when the project is not a local
\* directory (container.py:226-246); "" when the variable is not set
ProjectUrlAlways(project) == project
ProjectUrl(project) ==
    IF project # "" /\ ~IsLocalDirectory(project) THEN project ELSE ""

\* the session_volumes without the /mc-config mount, and MC_PROJECT_URL
\* (container.py:219-263)
SessionMounts(project, mount_local, volumes) ==
    LET local_dir == AppMount(project, mount_local)
        auto == IF local_dir # "" THEN {Volume(local_dir, AppPath)} ELSE {}
    IN  [volumes |-> AddVolumes(auto, volumes, local_dir), url |-> ProjectUrl(project)]

\* self.client.containers.create(...) of create_session (container.py:492-513);
\* pr: the project after the mount decision, config: the directory bound
\* at /mc-config, mnt: the other volumes and MC_PROJECT_URL
SessionContainer(id, sname, sid, driver, st, pr, config, mnt) ==
    [id |-> id, name |-> sname, kind |-> "session", status |-> "created",
     type |-> "", def |-> 0, bind |-> NoBind, nets |-> {DefaultNetwork},
     alias |-> sname,
     sid |-> sid, driver |-> driver, mcpsLabel |-> st.names, env |-> McpEnv(st),
     project |-> pr, config |-> config, volumes |-> mnt.volumes, url |-> mnt.url]

RECURSIVE Range(_)
Range(s) == IF s = <<>> THEN {} ELSE {Head(s)} \cup Range(Tail(s))

----------------------------------------------------------------------------
(* Actions *)

Call(op, name, exc, ret, cid, note, sess, list) ==
    [op |-> op, name |-> name, exc |-> exc, ret |-> ret, cid |-> cid,
     note |-> note, sess |-> sess, list |-> list, failed |-> {}, started |-> {},
     entry |-> {},
     \* further arguments of create_session and _get_project_config_path,
     \* the working directory of the call and the path it resolved
     driver |-> "", failAt |-> "none", project |-> "", mount |-> FALSE,
     cwd |-> "", path |-> {},
     \* the host_port argument of add_proxy_mcp
     host_port |-> NoPort,
     \* the networks argument and the effects of a create_session execution,
     \* in order
     nets |-> <<>>, steps |-> <<>>,
     \* the volumes argument of create_session
     volumes |-> <<>>]

\* no project directory yet; the process runs in a local directory
\* the command line invocations that can run at the same time
Procs == {"p1", "p2"}
\* an invocation that has not loaded the files: what it holds of the MCP
\* list and of the sessions, and the update it wrote
ProcIdle == [pc |-> "idle", mcps |-> <<>>, store |-> <<>>, upd |-> {}]
\* dup: the networks the daemon holds under the primary name beyond the
\* first (a network is identified by its id, its name is an alias)
HostInit ==
    [dirs |-> {}, cwd |-> "/w/p1", procs |-> [p \in Procs |-> ProcIdle], dup |-> 0]
\* no close_all_sessions in progress
\* mem: config.sessions as the process holds it, shared by the workers;
\* snap: the dump each worker is about to write to the file
CloseAllIdle == [phase |-> "idle", listed |-> {}, pc |-> <<>>, cb |-> <<>>,
                 res |-> <<>>, closed |-> 0, mem |-> <<>>, snap |-> <<>>]
\* no configuration file yet and no registry loaded
RegInit == [file |-> [exists |-> FALSE, hasDrivers |-> FALSE, drivers |-> <<>>],
            user |-> {}, drivers |-> <<>>, loaded |-> FALSE]

Init ==
    /\ mcps = <<>>
    /\ containers = {}
    /\ networks = {}
    /\ store = <<>>
    /\ nextCid = 1
    /\ last = Call("init", "", FALSE, NoRet, 0, "", {}, {})
    /\ host = HostInit
    /\ closeAll = CloseAllIdle
    /\ reg = RegInit

SessionVars == <<store>>
\* what the MCP manager and the session calls of one process leave alone
OtherVars == <<closeAll, reg>>
RuntimeVars == <<containers, networks, nextCid>>

\* config_manager.set("mcps", mcps) after remove-then-append
AddMcp(op, entry, hp) ==
    /\ mcps' = Added(mcps, entry)
    /\ last' = [Call(op, entry.name, FALSE, entry.type, 0,
                     IF HasMcp(mcps, entry.name) THEN "replaced" ELSE "added", {}, {})
                EXCEPT !.entry = {entry}, !.host_port = hp]
    /\ UNCHANGED <<RuntimeVars, SessionVars>>

\* D: the definition bundles the specification draws its arguments from
AddRemoteMcp(D) == \E n \in McpNames, d \in D : AddMcp("add_remote_mcp", RemoteMCP(n, d), NoPort)

AddDockerMcp(D) == \E n \in McpNames, d \in D : AddMcp("add_docker_mcp", DockerMCP(n, d), NoPort)

AddProxyMcp(D) ==
    \E n \in McpNames, d \in D, hp \in HostPortArgs :
        LET port == IF hp = NoPort THEN NextPort(mcps) ELSE hp
        IN  /\ port <= BasePort + MaxPortOffset
            /\ AddMcp("add_proxy_mcp", ProxyMCP(n, d, port), hp)

\* an MCPManager call that leaves the configuration alone
McpCall(op, n, r) ==
    /\ r.nextCid <= MaxCid + 1
    /\ containers' = r.containers
    /\ networks' = r.networks
    /\ nextCid' = r.nextCid
    /\ last' = Call(op, n, r.exc, r.ret, r.cid, r.note, {}, {})
    /\ UNCHANGED <<mcps, SessionVars>>

RemoveMcp ==
    \E n \in McpNames, fail \in BOOLEAN :
        LET updated == FilterOut(mcps, n)
        IN  IF Len(updated) = Len(mcps)
            THEN /\ last' = Call("remove_mcp", n, FALSE, "False", 0, "absent", {}, {})
                 /\ UNCHANGED <<mcps, RuntimeVars, SessionVars>>
            ELSE LET r == stop_mcp(updated, n, containers, networks, nextCid, fail)
                 IN  /\ mcps' = updated
                     /\ containers' = r.containers
                     /\ networks' = r.networks
                     /\ nextCid' = r.nextCid
                     /\ last' = Call("remove_mcp", n, r.exc,
                                     IF r.exc THEN NoRet ELSE "True", r.cid, r.note,
                                     {}, {})
                     /\ UNCHANGED SessionVars

StartMcp ==
    \E n \in McpNames, fail \in BOOLEAN :
        McpCall("start_mcp", n, start_mcp(mcps, n, containers, networks, nextCid, fail))

StopMcp ==
    \E n \in McpNames, fail \in BOOLEAN :
        McpCall("stop_mcp", n, stop_mcp(mcps, n, containers, networks, nextCid, fail))

RestartMcp ==
    \E n \in McpNames, fail \in BOOLEAN :
        McpCall("restart_mcp", n, restart_mcp(mcps, n, containers, networks, nextCid, fail))

GetMcpStatus ==
    \E n \in McpNames, fail \in BOOLEAN :
        McpCall("get_mcp_status", n,
                get_mcp_status(mcps, n, containers, networks, nextCid, fail))

GetMcpLogs ==
    \E n \in McpNames, fail \in BOOLEAN :
        McpCall("get_mcp_logs", n,
                get_mcp_logs(mcps, n, containers, networks, nextCid, fail))

\* list_sessions; fail: containers.list raises a DockerException, which is
\* printed, and the empty list is returned (container.py:135-138)
ListSessions ==
    \E fail \in BOOLEAN :
        /\ last' = Call("list_sessions", "", FALSE, NoRet, 0,
                        IF fail THEN "error" ELSE "", {},
                        IF fail THEN {} ELSE list_sessions(containers))
        /\ UNCHANGED <<mcps, RuntimeVars, SessionVars>>

\* the arguments of a create_session call, recorded with its result
WithArgs(call, a) ==
    [call EXCEPT !.driver = a.driver, !.failAt = a.failAt, !.project = a.project,
                 !.mount = a.mount, !.cwd = a.cwd, !.path = a.path,
                 !.nets = a.nets, !.steps = a.steps, !.volumes = a.volumes]

\* create_session returning None after the runtime and disk effects rt
CreateNone(note, rt, a) ==
    /\ rt.nextCid <= MaxCid + 1
    /\ containers' = rt.containers
    /\ networks' = rt.networks
    /\ nextCid' = rt.nextCid
    /\ host' = [host EXCEPT !.dirs = rt.dirs]
    /\ last' = WithArgs(Call("create_session", "", FALSE, "None", 0, note, {}, {}), a)
    /\ UNCHANGED <<mcps, SessionVars>>

\* driver = self.config_manager.get_driver(driver_name); "if not driver"
DriverFoundAny(driver) == TRUE
DriverFound(driver) == driver \in Drivers

\* the runtime call `step` raises a DockerException, which the handler of
\* create_session catches to return None (container.py:635-637)
CaughtNever(step, failAt) == FALSE
Caught(step, failAt) == failAt = step

\* the DockerException of a failed connect is caught and printed inside the
\* loop that raised it (container.py:536-537, 555-558, 592-593): it does not
\* reach the handler of create_session
PropagatesAlways(failed) == failed
Propagates(failed) == FALSE

\* network.connect(container, aliases=[session_name]) inside its try block;
\* r: the networks joined, the networks of the runtime, the effects so far,
\* the number of connects tried and whether an exception left the loops.
\* The connect fails when the runtime refuses it (its number is in netFails)
\* or the container already has an endpoint on the network
Connect(r, n, netFails) ==
    IF r.exc THEN r
    ELSE IF r.tries + 1 \in netFails \/ n \in r.joined
    THEN [r EXCEPT !.tries = @ + 1,
                   !.steps = Append(@, Step("connect_error", n)),
                   !.exc = Propagates(TRUE)]
    ELSE [r EXCEPT !.tries = @ + 1, !.joined = @ \cup {n},
                   !.steps = Append(@, Step("connect", n))]

\* "try: network = self.client.networks.get(name) except DockerException:
\* network = self.client.networks.create(name, driver="bridge")", then connect
GetOrCreateConnect(r, n, netFails) ==
    IF r.exc THEN r
    ELSE Connect([r EXCEPT !.networks = @ \cup {n}], n, netFails)

\* network_list[1:]: the user networks but the default one (container.py:443-448)
ExtraNetworks(nets) == SelectSeq(nets, LAMBDA n : n # DefaultNetwork)

RECURSIVE ConnectExtra(_, _, _, _)
\* "for network_name in network_list[1:]" (container.py:518-537)
ConnectExtra(r, list, pos, netFails) ==
    IF pos > Len(list) THEN r
    ELSE ConnectExtra(GetOrCreateConnect(r, list[pos], netFails), list, pos + 1,
                      netFails)

RECURSIVE ConnectDedicated(_, _, _, _)
\* "for mcp_name in mcp_names" (container.py:542-562): the dedicated network
\* is looked up, never created
ConnectDedicated(r, names, pos, netFails) ==
    IF pos > Len(names) THEN r
    ELSE ConnectDedicated(
             IF DedicatedNetwork(names[pos]) \in r.networks
             THEN Connect(r, DedicatedNetwork(names[pos]), netFails)
             ELSE IF r.exc THEN r
             ELSE [r EXCEPT !.steps =
                       Append(@, Step("network_not_found",
                                      DedicatedNetwork(names[pos])))],
             names, pos + 1, netFails)

RECURSIVE ConnectRemaining(_, _, _, _, _)
\* "for network_name in networks: if network_name not in existing_networks"
\* (container.py:565-593); existing: the networks of container.attrs as the
\* reload before the MCP loop read them
ConnectRemaining(r, nets, pos, existing, netFails) ==
    IF pos > Len(nets) THEN r
    ELSE ConnectRemaining(
             IF nets[pos] \in existing THEN r
             ELSE GetOrCreateConnect(r, nets[pos], netFails),
             nets, pos + 1, existing, netFails)

\* the network connections of the started session container
\* (container.py:518-593): the user networks, then the dedicated network of
\* every attached MCP when it exists, then the user networks not yet joined
ConnectNetworksMcpFirst(st, nets, netFails) ==
    LET r0 == [joined |-> {DefaultNetwork}, networks |-> st.networks,
               steps |-> <<>>, tries |-> 0, exc |-> FALSE]
        r1 == ConnectDedicated(r0, st.names, 1, netFails)
    IN  ConnectRemaining(r1, nets, 1, r0.joined, netFails)
ConnectNetworks(st, nets, netFails) ==
    LET r0 == [joined |-> {DefaultNetwork}, networks |-> st.networks,
               steps |-> <<>>, tries |-> 0, exc |-> FALSE]
        r1 == ConnectExtra(r0, ExtraNetworks(nets), 1, netFails)
        r2 == ConnectDedicated(r1, st.names, 1, netFails)
    IN  ConnectRemaining(r2, nets, 1, r1.joined, netFails)

\* how many connects one create_session can try at most
MaxTries(st, nets) ==
    Len(ExtraNetworks(nets)) + Len(nets)
    + Cardinality({p \in DOMAIN st.names :
                      DedicatedNetwork(st.names[p]) \in st.networks \cup Range(nets)})

\* the effects of a create_session execution that returns a session, in the
\* order of the statements: the MCP loop, containers.create, container.start,
\* the connects, session_manager.add_session (container.py:325-633)
EffectsStoreFirst(mcp, conn, sid) ==
    <<Step("add_session", sid)>> \o mcp \o <<Step("create", ""), Step("start", "")>>
        \o conn
Effects(mcp, conn, sid) ==
    mcp \o <<Step("create", ""), Step("start", "")>> \o conn
        \o <<Step("add_session", sid)>>

\* the positions of the mcp argument for which start_mcp is called
\* (container.py:346-350), i.e. where a start can fail
Startable(cfgs, list) ==
    {p \in DOMAIN list : /\ HasMcp(cfgs, list[p])
                         /\ get_mcp(cfgs, list[p]).type \in {"docker", "proxy"}}

\* S: the ids uuid4 can yield; R, L, N, P, M, V: the session_name, mcp,
\* networks, project, mount_local and volumes arguments the specification
\* draws from
CreateSession(S, R, L, N, P, M, V) ==
    \E driver \in DriverArgs, project \in P, mount \in M, volumes \in V :
        LET arg0 == [driver |-> driver, failAt |-> "none", project |-> project,
                     mount |-> mount, cwd |-> host.cwd, path |-> {},
                     nets |-> <<>>, steps |-> <<>>, volumes |-> volumes]
        IN
        IF ~DriverFound(driver)
        THEN /\ last' = WithArgs(Call("create_session", "", FALSE, "None", 0,
                                      "driver", {}, {}), arg0)
             /\ UNCHANGED <<mcps, RuntimeVars, SessionVars, host>>
        ELSE
        \E sid \in S, req \in R,
           failAt \in {"none", "pull", "create", "start"} :
            LET nets0 == networks \cup {DefaultNetwork}
                rt0 == [containers |-> containers, networks |-> nets0,
                        nextCid |-> nextCid, dirs |-> host.dirs]
            IN
            IF Caught("pull", failAt)
            THEN CreateNone("pull", rt0, [arg0 EXCEPT !.failAt = "pull"])
            ELSE
            \E list \in L, nets \in N :
            \E fails \in SUBSET Startable(mcps, list) :
            \E st \in {ProcessMcps(mcps, list, 1,
                          [names |-> <<>>, idx |-> <<>>, failed |-> {}, started |-> {},
                           steps |-> <<>>,
                           containers |-> containers, networks |-> nets0,
                           nextCid |-> nextCid], fails)} :
                LET pr == MountedProject(project, mount)
                    cfgdir == get_project_config_path(host, pr)
                    sname == SessionName(req, sid)
                    conflict == Exists(st.containers, sname)
                    arg1 == [arg0 EXCEPT !.path = {cfgdir.path}, !.nets = nets,
                                         !.steps = st.steps,
                                         !.failAt = IF conflict /\ failAt = "none"
                                                    THEN "create" ELSE failAt]
                    rt1 == [containers |-> st.containers, networks |-> st.networks,
                            nextCid |-> st.nextCid, dirs |-> cfgdir.dirs]
                    c == SessionContainer(st.nextCid, sname, sid, driver, st, pr,
                                          cfgdir.path, SessionMounts(project, mount, volumes))
                    started == st.steps \o <<Step("create", ""), Step("start", "")>>
                    session == [id |-> sid, name |-> sname, container_id |-> c.id,
                                status |-> "running", mcps |-> st.names,
                                env |-> c.env]
                IN
                IF Caught("create", failAt) \/ conflict
                THEN CreateNone("create", rt1, arg1)
                ELSE IF Caught("start", failAt)
                THEN CreateNone("start",
                                [rt1 EXCEPT !.containers = @ \cup {c},
                                            !.nextCid = @ + 1],
                                [arg1 EXCEPT !.steps = Append(@, Step("create", ""))])
                ELSE
                \E r \in {ConnectNetworks(st, nets, f) :
                              f \in SUBSET (1..MaxTries(st, nets))} :
                \E run \in {[c EXCEPT !.status = "running", !.nets = r.joined]} :
                IF r.exc
                THEN CreateNone("connect",
                                [rt1 EXCEPT !.containers = @ \cup {run},
                                            !.networks = r.networks,
                                            !.nextCid = @ + 1],
                                [arg1 EXCEPT !.failAt = "connect",
                                             !.steps = started \o r.steps])
                ELSE /\ st.nextCid <= MaxCid
                     /\ containers' = st.containers \cup {run}
                     /\ networks' = r.networks
                     /\ nextCid' = st.nextCid + 1
                     /\ store' = add_session(store, sid, session)
                     /\ host' = [host EXCEPT !.dirs = cfgdir.dirs]
                     /\ last' = [WithArgs(Call("create_session", sid, FALSE, "Session",
                                               c.id, "", {session}, {}), arg1)
                                    EXCEPT !.failed = st.failed,
                                           !.started = st.started,
                                           !.steps = Effects(st.steps, r.steps, sid)]
                     /\ UNCHANGED mcps

\* _close_single_session (container.py:722-742); failAt: the runtime call
\* that raises a DockerException
CloseSingle(op, sid, sess, failAt) ==
    IF sess.container_id \notin Ids(containers) \/ failAt = "get"
    THEN /\ last' = Call(op, sid, FALSE, "False", sess.container_id, "get", {}, {})
         /\ UNCHANGED <<mcps, RuntimeVars, SessionVars>>
    ELSE IF failAt = "stop"
    THEN /\ last' = Call(op, sid, FALSE, "False", sess.container_id, "stop", {}, {})
         /\ UNCHANGED <<mcps, RuntimeVars, SessionVars>>
    ELSE IF failAt = "remove"
    THEN /\ containers' = SetStatus(containers, sess.container_id, "exited")
         /\ last' = Call(op, sid, FALSE, "False", sess.container_id, "remove", {}, {})
         /\ UNCHANGED <<mcps, networks, nextCid, SessionVars>>
    ELSE /\ containers' = {c \in containers : c.id # sess.container_id}
         /\ store' = remove_session(store, sess.id)
         /\ last' = Call(op, sid, FALSE, "True", sess.container_id, "closed", {}, {})
         /\ UNCHANGED <<mcps, networks, nextCid>>

\* "if session.id == session_id" (container.py:643-645, 663)
MatchesAny(sessions, sid) == sessions
Matches(sessions, sid) == {x \in sessions : x.id = sid}

CloseSession ==
    \E sid \in SessionIds, failAt \in {"none", "list", "get", "stop", "remove"} :
        LET sessions == IF failAt = "list" THEN {} ELSE list_sessions(containers)
            matches == Matches(sessions, sid)
        IN  IF matches = {}
            THEN /\ last' = Call("close_session", sid, FALSE, "False", 0, "notfound", {}, {})
                 /\ UNCHANGED <<mcps, RuntimeVars, SessionVars>>
            ELSE \E x \in matches : CloseSingle("close_session", sid, x, failAt)

\* connect_session (container.py:654-720); "exec": os.execvp replaced the process
ConnectSession ==
    \E sid \in SessionIds, failAt \in {"none", "list", "get", "exec"} :
        LET Ret(r, cid, note) ==
                /\ last' = Call("connect_session", sid, FALSE, r, cid, note, {}, {})
                /\ UNCHANGED <<mcps, RuntimeVars>>
            Exec(cid) == IF failAt = "exec" THEN Ret("False", cid, "nodocker")
                                           ELSE Ret("exec", cid, "exec")
        IN  IF ~HasSession(store, sid)
            THEN LET sessions == IF failAt = "list" THEN {} ELSE list_sessions(containers)
                     matches == Matches(sessions, sid)
                 IN  /\ UNCHANGED store
                     /\ IF matches = {} THEN Ret("False", 0, "notfound")
                        ELSE \E x \in matches : Exec(x.container_id)
            ELSE LET cid == get_session(store, sid).container_id
                 IN  IF failAt = "get"
                     THEN UNCHANGED store /\ Ret("False", cid, "error")
                     ELSE IF cid \notin Ids(containers)
                     THEN /\ store' = remove_session(store, sid)
                          /\ Ret("False", cid, "stale")
                     ELSE IF ById(containers, cid).status # "running"
                     THEN UNCHANGED store /\ Ret("False", cid, "notrunning")
                     ELSE UNCHANGED store /\ Exec(cid)

\* _get_project_config_path(project) called on its own
GetProjectConfigPath ==
    \E project \in ProjectArgs :
        LET r == get_project_config_path(host, project)
        IN  /\ host' = [host EXCEPT !.dirs = r.dirs]
            /\ last' = [Call("get_project_config_path", "", FALSE, "path", 0,
                             IF r.path \in host.dirs THEN "existed" ELSE "created",
                             {}, {})
                           EXCEPT !.project = project, !.cwd = host.cwd,
                                  !.path = {r.path}]
            /\ UNCHANGED <<mcps, RuntimeVars, SessionVars, OtherVars>>

\* the next invocation runs in another working directory (os.getcwd())
ChangeDir ==
    \E d \in LocalDirs :
        /\ d # host.cwd
        /\ host' = [host EXCEPT !.cwd = d]
        /\ UNCHANGED <<mcps, RuntimeVars, SessionVars, OtherVars, last>>

(* close_all_sessions (container.py:744-815): the listing, then one worker  *)
(* thread per listed session (max_workers = min(10, len(sessions))), each   *)
(* running close_with_progress; the caller collects the futures once every  *)
(* worker is done. The progress callback is the caller's.                   *)

\* progress_callback(session.id, status, message)
NotifyDrop(cb, cid, status) == cb
Notify(cb, cid, status) == [cb EXCEPT ![cid] = Append(@, status)]

\* closed_count: the futures whose result is True (container.py:797-808)
ClosedCountAll(res) == Cardinality(DOMAIN res)
ClosedCount(res) == Cardinality({cid \in DOMAIN res : res[cid] = "completed"})

\* return closed_count, closed_count > 0 (container.py:811)
CloseAllSuccessAlways(closed) == TRUE
CloseAllSuccess(closed) == closed > 0

\* sessions = self.list_sessions(); "if not sessions: return 0, True";
\* list_sessions answers [] when the runtime raises
CloseAllBegin ==
    \E fail \in BOOLEAN :
        LET sessions == IF fail THEN {} ELSE list_sessions(containers)
            cids == {x.container_id : x \in sessions}
        IN  /\ closeAll.phase # "running"
            /\ closeAll' = [phase |-> IF sessions = {} THEN "returned" ELSE "running",
                            listed |-> sessions,
                            pc |-> [c \in cids |-> "get"],
                            cb |-> [c \in cids |-> <<>>],
                            res |-> [c \in cids |-> ""],
                            closed |-> 0,
                            mem |-> IF sessions = {} THEN <<>> ELSE store,
                            snap |-> [c \in cids |-> <<>>]]
            /\ last' = Call("close_all_sessions", "", FALSE,
                            IF sessions = {} THEN "True" ELSE NoRet, 0,
                            IF sessions = {} THEN "empty" ELSE "submitted", {}, {})
            /\ UNCHANGED <<mcps, RuntimeVars, SessionVars, host, reg>>

\* the except branch of close_with_progress: the callback is told "failed"
\* and the future's result is False
WorkerFailed(cid, why) ==
    /\ closeAll' = [closeAll EXCEPT !.pc[cid] = "done", !.res[cid] = why,
                                    !.cb = Notify(@, cid, "failed")]
    /\ UNCHANGED <<mcps, RuntimeVars, SessionVars, host, reg, last>>

\* the "completed" callback and the True result of close_with_progress
WorkerCompleted(ca, cid) ==
    [ca EXCEPT !.pc[cid] = "done", !.res[cid] = "completed",
               !.cb = Notify(@, cid, "completed")]

\* one step of one worker: containers.get, stop, remove with the deletion of
\* the record from config.sessions and the dump of save_config (steps of the
\* process's memory no other worker can tell apart), then the write of that
\* dump to the file and the "completed" callback; fail: the runtime call
\* raises a DockerException other than NotFound
CloseWorker ==
    \E x \in closeAll.listed, fail \in BOOLEAN :
        LET cid == x.container_id
            at == closeAll.pc[cid]
        IN  /\ closeAll.phase = "running"
            /\ at # "done"
            /\ IF at = "write"
               THEN /\ store' = closeAll.snap[cid]
                    /\ closeAll' = WorkerCompleted(closeAll, cid)
                    /\ UNCHANGED <<mcps, RuntimeVars, host, reg, last>>
               ELSE IF cid \notin Ids(containers) THEN WorkerFailed(cid, "notfound")
               ELSE IF fail THEN WorkerFailed(cid, "error")
               ELSE IF at = "get"
               THEN /\ closeAll' = [closeAll EXCEPT !.pc[cid] = "stop"]
                    /\ UNCHANGED <<mcps, RuntimeVars, SessionVars, host, reg, last>>
               ELSE IF at = "stop"
               THEN /\ closeAll' = [closeAll EXCEPT !.pc[cid] = "remove"]
                    /\ containers' = SetStatus(containers, cid, "exited")
                    /\ UNCHANGED <<mcps, networks, nextCid, SessionVars, host, reg, last>>
               ELSE /\ containers' = {c \in containers : c.id # cid}
                    /\ closeAll' =
                          IF HasSession(closeAll.mem, x.id)
                          THEN [closeAll EXCEPT
                                   !.mem = remove_session(@, x.id),
                                   !.snap[cid] = remove_session(closeAll.mem, x.id),
                                   !.pc[cid] = "write"]
                          ELSE WorkerCompleted(closeAll, cid)
                    /\ UNCHANGED <<mcps, networks, nextCid, SessionVars, host, reg,
                                   last>>

\* leaving the executor block once every future is done:
\* return closed_count, closed_count > 0
CloseAllEnd ==
    /\ closeAll.phase = "running"
    /\ \A cid \in DOMAIN closeAll.pc : closeAll.pc[cid] = "done"
    /\ closeAll' = [closeAll EXCEPT !.phase = "returned",
                                    !.closed = ClosedCount(closeAll.res)]
    /\ last' = Call("close_all_sessions", "", FALSE,
                    IF CloseAllSuccess(ClosedCount(closeAll.res)) THEN "True"
                                                                   ELSE "False", 0,
                    "returned", {}, {})
    /\ UNCHANGED <<mcps, RuntimeVars, SessionVars, host, reg>>

(* The runtime is shared with other tools and with the containers' own     *)
(* processes: a container can be removed, or can exit, outside this        *)
(* program.                                                                *)

ExternalRemove ==
    \E c \in containers :
        /\ containers' = containers \ {c}
        /\ last' = Call("external_remove", "", FALSE, NoRet, c.id, "", {}, {})
        /\ UNCHANGED <<mcps, networks, nextCid, SessionVars>>

\* another tool runs a container labelled mc.session without mc.session.id
ExternalRun ==
    /\ nextCid <= MaxCid
    /\ ~Exists(containers, <<"ext", "x">>)
    /\ containers' = containers \cup
           {[SessionContainer(nextCid, <<"ext", "x">>, "", "", 
                              [names |-> <<>>, idx |-> <<>>], "", NoConfig, NoMounts)
                EXCEPT !.status = "running"]}
    /\ nextCid' = nextCid + 1
    /\ last' = Call("external_run", "", FALSE, NoRet, nextCid, "", {}, {})
    /\ UNCHANGED <<mcps, networks, SessionVars>>

ExternalExit ==
    \E c \in containers :
        /\ c.status = "running"
        /\ containers' = SetStatus(containers, c.id, "exited")
        /\ last' = Call("external_exit", "", FALSE, NoRet, c.id, "", {}, {})
        /\ UNCHANGED <<mcps, networks, nextCid, SessionVars>>

(* The driver registry (config.py) and the file ~/.config/mc/config.yaml,  *)
(* which ConfigManager and UserConfigManager both read and write.          *)
(* A driver definition is named by where it comes from: "default"          *)
(* (DEFAULT_DRIVERS), "builtin" (a manifest under BUILTIN_DRIVERS_DIR) or   *)
(* "user" (a manifest under ~/.config/mc/drivers).                          *)

DriverNames == {"goose", "aider", "custom"}
\* DEFAULT_DRIVERS (config.py:14-39)
DEFAULT_DRIVERS == [n \in {"goose", "aider"} |-> "default"]
\* load_builtin_drivers(): the manifests bundled under BUILTIN_DRIVERS_DIR
BuiltinDrivers == [n \in {"goose"} |-> "builtin"]

\* drivers = {**DEFAULT_DRIVERS, **builtin_drivers}
MergeDrivers(defaults, builtin) ==
    [n \in DOMAIN defaults \cup DOMAIN builtin |->
        IF n \in DOMAIN builtin THEN builtin[n] ELSE defaults[n]]

\* the definition the package bundles for a name
BundledDrivers == MergeDrivers(DEFAULT_DRIVERS, BuiltinDrivers)

\* config.yaml without a "drivers" key, as UserConfigManager writes it
NoDriversFile == [exists |-> TRUE, hasDrivers |-> FALSE, drivers |-> <<>>]

\* _load_or_create_config (config.py:49-76): the registry and the file after it
load_or_create_config(file) ==
    IF file.exists
    THEN [drivers |-> IF file.hasDrivers THEN file.drivers ELSE <<>>, file |-> file]
    ELSE [drivers |-> BundledDrivers,
          file |-> [exists |-> TRUE, hasDrivers |-> TRUE, drivers |-> BundledDrivers]]

\* self.config.drivers.get(name)
get_driver(drivers, name) == IF name \in DOMAIN drivers THEN drivers[name] ELSE "None"

\* get_driver_path (config.py:187-199): built-in directory first, then the user's
get_driver_path(user, name) ==
    IF name \in DOMAIN BuiltinDrivers THEN "builtin"
    ELSE IF name \in user THEN "user" ELSE "None"

\* a command line invocation starts: config_manager = ConfigManager(), then
\* user_config = UserConfigManager() on the same file (cli.py:20-21)
CliStart ==
    LET r == load_or_create_config(reg.file)
    IN  /\ reg' = [reg EXCEPT !.file = r.file, !.drivers = r.drivers, !.loaded = TRUE]
        /\ last' = Call("ConfigManager", "", FALSE, NoRet, 0,
                        IF reg.file.exists THEN "loaded" ELSE "created", {}, {})
        /\ UNCHANGED <<mcps, RuntimeVars, SessionVars, host, closeAll>>

GetDriver ==
    \E n \in DriverNames :
        /\ reg.loaded
        /\ last' = Call("get_driver", n, FALSE, get_driver(reg.drivers, n), 0, "", {}, {})
        /\ UNCHANGED <<mcps, RuntimeVars, SessionVars, host, OtherVars>>

ListDrivers ==
    /\ reg.loaded
    /\ last' = Call("list_drivers", "", FALSE, NoRet, 0, "", {},
                    {[name |-> n, def |-> reg.drivers[n]] : n \in DOMAIN reg.drivers})
    /\ UNCHANGED <<mcps, RuntimeVars, SessionVars, host, OtherVars>>

GetDriverPath ==
    \E n \in DriverNames :
        /\ reg.loaded
        /\ last' = Call("get_driver_path", n, FALSE, get_driver_path(reg.user, n), 0,
                        "", {}, {})
        /\ UNCHANGED <<mcps, RuntimeVars, SessionVars, host, OtherVars>>

\* "config reset" (cli.py:530-543): user_config.reset() saves the default
\* user configuration over the file (user_config.py:166-169)
ConfigReset ==
    /\ reg.loaded
    /\ reg' = [reg EXCEPT !.file = NoDriversFile]
    /\ last' = Call("config_reset", "", FALSE, NoRet, 0, "", {}, {})
    /\ UNCHANGED <<mcps, RuntimeVars, SessionVars, host, closeAll>>

\* "config set" (cli.py:492-511): user_config.set saves what UserConfigManager
\* loaded from the file, the other keys of the file included
ConfigSet ==
    /\ reg.loaded
    /\ last' = Call("config_set", "", FALSE, NoRet, 0, "", {}, {})
    /\ UNCHANGED <<mcps, RuntimeVars, SessionVars, host, OtherVars>>

\* the user puts a driver manifest under ~/.config/mc/drivers/<name>
InstallUserManifest ==
    \E n \in DriverNames :
        /\ n \notin reg.user
        /\ reg' = [reg EXCEPT !.user = @ \cup {n}]
        /\ last' = Call("install_manifest", n, FALSE, NoRet, 0, "", {}, {})
        /\ UNCHANGED <<mcps, RuntimeVars, SessionVars, host, closeAll>>

\* the driver registry over command line invocations
NextRegistry ==
    \/ CliStart
    \/ GetDriver
    \/ ListDrivers
    \/ GetDriverPath
    \/ ConfigReset
    \/ ConfigSet
    \/ InstallUserManifest

\* the configuration list alone: add_*_mcp and remove_mcp
NextConfig ==
    \/ AddRemoteMcp(Defs) /\ UNCHANGED <<host, OtherVars>>
    \/ AddDockerMcp(Defs) /\ UNCHANGED <<host, OtherVars>>
    \/ AddProxyMcp(Defs) /\ UNCHANGED <<host, OtherVars>>
    \/ RemoveMcp /\ UNCHANGED <<host, OtherVars>>

\* the MCP sidecar manager against the runtime; the second MCP name is only
\* ever given a docker definition
NextMcp ==
    \/ AddRemoteMcp({1}) /\ last'.name = "a" /\ UNCHANGED <<host, OtherVars>>
    \/ AddDockerMcp({1}) /\ UNCHANGED <<host, OtherVars>>
    \/ AddProxyMcp({1}) /\ last'.name = "a" /\ UNCHANGED <<host, OtherVars>>
    \/ RemoveMcp /\ UNCHANGED <<host, OtherVars>>
    \/ StartMcp /\ UNCHANGED <<host, OtherVars>>
    \/ StopMcp /\ UNCHANGED <<host, OtherVars>>
    \/ RestartMcp /\ UNCHANGED <<host, OtherVars>>
    \/ GetMcpStatus /\ UNCHANGED <<host, OtherVars>>
    \/ GetMcpLogs /\ UNCHANGED <<host, OtherVars>>

\* configurations add_*_mcp leaves behind, for the session manager to start from
SessionConfigs ==
    { <<DockerMCP("a", 1)>>,
      <<RemoteMCP("a", 1), DockerMCP("b", 1)>>,
      <<DockerMCP("a", 1), ProxyMCP("b", 1, BasePort + 1)>>,
      <<ProxyMCP("a", 1, BasePort + 1), RemoteMCP("b", 1)>> }

InitCreate ==
    /\ mcps \in SessionConfigs
    /\ containers = {}
    /\ networks = {}
    /\ store = <<>>
    /\ nextCid = 1
    /\ last = Call("init", "", FALSE, NoRet, 0, "", {}, {})
    /\ host = HostInit
    /\ closeAll = CloseAllIdle
    /\ reg = RegInit

\* session creation with MCPs attached
NextCreate ==
    \/ CreateSession({"s1"}, {""}, McpListArgs, {<<>>}, {""}, {TRUE}, {<<>>})
           /\ UNCHANGED OtherVars
    \/ ListSessions /\ UNCHANGED <<host, OtherVars>>

\* the session lifecycle against the Session Store and a runtime that other
\* tools change too
NextSession ==
    \/ CreateSession(SessionIds, {"n1", "n2"}, {<<>>}, {<<>>}, {""}, {TRUE}, {<<>>})
           /\ UNCHANGED OtherVars
    \/ ListSessions /\ UNCHANGED <<host, OtherVars>>
    \/ CloseSession /\ UNCHANGED <<host, OtherVars>>
    \/ ConnectSession /\ UNCHANGED <<host, OtherVars>>
    \/ ExternalRemove /\ UNCHANGED <<host, OtherVars>>
    \/ ExternalExit /\ UNCHANGED <<host, OtherVars>>
    \/ ExternalRun /\ UNCHANGED <<host, OtherVars>>

\* close_all_sessions with its worker threads, against a runtime that other
\* tools change too; the calls of the process are sequential, so no session
\* is created while close_all_sessions runs
NextCloseAll ==
    \/ /\ closeAll.phase # "running"
       /\ CreateSession(SessionIds, {"n1", "n2"}, {<<>>}, {<<>>}, {""}, {TRUE}, {<<>>})
       /\ UNCHANGED OtherVars
    \/ CloseAllBegin
    \/ CloseWorker
    \/ CloseAllEnd
    \/ ExternalRemove /\ UNCHANGED <<host, OtherVars>>
    \/ ExternalExit /\ UNCHANGED <<host, OtherVars>>

\* sessions of projects: the project configuration directory on the host
NextProject ==
    \/ CreateSession(SessionIds, {""}, {<<>>}, {<<>>}, ProjectArgs \ {""}, BOOLEAN, {<<>>})
           /\ UNCHANGED OtherVars
    \/ GetProjectConfigPath
    \/ ChangeDir

\* another tool creates the network a session looks up for an attached MCP
\* (docker network create)
ExternalNetwork ==
    \E m \in McpNames :
        /\ DedicatedNetwork(m) \notin networks
        /\ networks' = networks \cup {DedicatedNetwork(m)}
        /\ UNCHANGED <<mcps, containers, nextCid, store, last, host, OtherVars>>

\* the configurations the sessions of the network specification start from
NetConfigs ==
    { <<DockerMCP("a", 1)>>,
      <<RemoteMCP("a", 1), DockerMCP("b", 1)>> }

InitNet ==
    /\ mcps \in NetConfigs
    /\ containers = {}
    /\ networks = {}
    /\ store = <<>>
    /\ nextCid = 1
    /\ last = Call("init", "", FALSE, NoRet, 0, "", {}, {})
    /\ host = HostInit
    /\ closeAll = CloseAllIdle
    /\ reg = RegInit

\* session creation with MCPs attached and user networks given
NextNet ==
    \/ CreateSession({"s1"}, {""}, {<<>>, <<"a">>, <<"a", "b">>}, NetworkArgs,
                     {""}, {TRUE}, {<<>>})
           /\ UNCHANGED OtherVars
    \/ ExternalNetwork

\* what an update starts from: the configuration the invocation loaded when
\* it started, self.config (user_config.py:35, 97-127; config.py:125-135),
\* not the file as it is now
HeldReread(snap, file) == file
Held(snap, file) == snap

\* the record add_session stores for a session
SessionRecord(sid) ==
    [id |-> sid, name |-> <<"mc-", sid>>, container_id |-> 0, status |-> "running",
     mcps |-> <<>>, env |-> NoEnv]

\* the end of an invocation that ran the operation op for name
ProcDone(op, name) == [ProcIdle EXCEPT !.pc = "done", !.upd = {<<op, name>>}]

\* an invocation starts: the managers load the files (cli.py:20-22)
ProcLoad ==
    \E p \in Procs :
        /\ host.procs[p].pc \in {"idle", "done"}
        /\ host' = [host EXCEPT !.procs[p] =
                        [pc |-> "loaded", mcps |-> mcps, store |-> store, upd |-> {}]]
        /\ UNCHANGED <<mcps, RuntimeVars, SessionVars, last, OtherVars>>

\* add_remote_mcp in an invocation: the list it holds, with the entry, is
\* written to the file (mcp.py:69-79; user_config.py:157-164)
ProcAddMcp ==
    \E p \in Procs, n \in McpNames :
        LET entry == RemoteMCP(n, 1)
        IN  /\ host.procs[p].pc = "loaded"
            /\ mcps' = Added(Held(host.procs[p].mcps, mcps), entry)
            /\ host' = [host EXCEPT !.procs[p] = ProcDone("add_remote_mcp", n)]
            /\ last' = [Call("add_remote_mcp", n, FALSE, "remote", 0, p, {}, {})
                           EXCEPT !.entry = {entry}]
            /\ UNCHANGED <<RuntimeVars, SessionVars, OtherVars>>

\* add_session in an invocation (config.py:125-129)
ProcAddSession ==
    \E p \in Procs, sid \in SessionIds :
        /\ host.procs[p].pc = "loaded"
        /\ store' = add_session(Held(host.procs[p].store, store), sid,
                                SessionRecord(sid))
        /\ host' = [host EXCEPT !.procs[p] = ProcDone("add_session", sid)]
        /\ last' = Call("add_session", sid, FALSE, NoRet, 0, p, {}, {})
        /\ UNCHANGED <<mcps, RuntimeVars, OtherVars>>

\* remove_session in an invocation (config.py:131-135): the file is written
\* only when the invocation holds a record of that id
ProcRemoveSession ==
    \E p \in Procs, sid \in SessionIds :
        /\ host.procs[p].pc = "loaded"
        /\ store' = IF HasSession(Held(host.procs[p].store, store), sid)
                    THEN remove_session(Held(host.procs[p].store, store), sid)
                    ELSE store
        /\ host' = [host EXCEPT !.procs[p] = ProcDone("remove_session", sid)]
        /\ last' = Call("remove_session", sid, FALSE, NoRet, 0, p, {}, {})
        /\ UNCHANGED <<mcps, RuntimeVars, OtherVars>>

\* the networks the daemon holds under the primary name
PrimaryNetworks(nets, h) == (IF DefaultNetwork \in nets THEN 1 ELSE 0) + h.dup

\* _ensure_network of create_session in an invocation, the listing:
\* networks = self.client.networks.list(names=[network_name])
ProcListNetworks ==
    \E p \in Procs :
        /\ host.procs[p].pc = "loaded"
        /\ host' = [host EXCEPT !.procs[p].pc =
                        IF DefaultNetwork \in networks THEN "present" ELSE "absent"]
        /\ UNCHANGED <<mcps, RuntimeVars, SessionVars, last, OtherVars>>

\* _ensure_network, after the listing: if not networks: networks.create(...).
\* When another invocation created the network since the listing, the daemon
\* either creates a second network of that name or refuses with a conflict,
\* a DockerException that makes create_session return None
ProcEnsureNetwork ==
    \E p \in Procs, refused \in BOOLEAN :
        LET listed == host.procs[p].pc
            exists == DefaultNetwork \in networks
            exc == listed = "absent" /\ exists /\ refused
            note == IF listed = "present" THEN "present"
                    ELSE IF exc THEN "conflict" ELSE "created"
        IN  /\ listed \in {"present", "absent"}
            /\ (listed = "present" \/ ~exists) => ~refused
            /\ networks' = IF listed = "absent" THEN networks \cup {DefaultNetwork}
                           ELSE networks
            /\ host' = [host EXCEPT !.procs[p] = ProcDone("_ensure_network", note),
                                    !.dup = IF listed = "absent" /\ exists /\ ~exc
                                            THEN @ + 1 ELSE @]
            /\ last' = Call("_ensure_network", DefaultNetwork, exc, NoRet, 0, note, {}, {})
            /\ UNCHANGED <<mcps, containers, nextCid, SessionVars, OtherVars>>

\* two command line invocations against the same files and the same daemon,
\* no lock taken
NextRace ==
    \/ ProcLoad
    \/ ProcAddMcp
    \/ ProcAddSession
    \/ ProcRemoveSession
    \/ ProcListNetworks
    \/ ProcEnsureNetwork

SpecConfig == Init /\ [][NextConfig]_vars
SpecMcp == Init /\ [][NextMcp]_vars
SpecCreate == InitCreate /\ [][NextCreate]_vars
SpecSession == Init /\ [][NextSession]_vars
SpecCloseAll == Init /\ [][NextCloseAll]_vars
SpecProject == Init /\ [][NextProject]_vars
SpecRegistry == Init /\ [][NextRegistry]_vars
SpecNet == InitNet /\ [][NextNet]_vars
SpecRace == Init /\ [][NextRace]_vars

\* sessions with MCPs attached, closed one by one and all at once
NextSidecar ==
    \/ /\ closeAll.phase # "running"
       /\ CreateSession({"s1"}, {""}, {<<>>, <<"a">>, <<"a", "b">>}, {<<>>},
                        {""}, {TRUE}, {<<>>})
       /\ UNCHANGED OtherVars
    \/ /\ closeAll.phase # "running"
       /\ CloseSession
       /\ UNCHANGED <<host, OtherVars>>
    \/ CloseAllBegin
    \/ CloseWorker
    \/ CloseAllEnd
SpecSidecar == InitCreate /\ [][NextSidecar]_vars

\* sessions of projects with volumes given by the caller
NextVolumes ==
    \/ CreateSession({"s1"}, {""}, {<<>>}, {<<>>}, ProjectArgs \ {""}, BOOLEAN, VolumeArgs)
           /\ UNCHANGED OtherVars
SpecVolumes == Init /\ [][NextVolumes]_vars
Spec == SpecSession

----------------------------------------------------------------------------
(* Properties *)

McpOps == {"add_remote_mcp", "add_docker_mcp", "add_proxy_mcp"}
McpRunning(conts, name) ==
    /\ Exists(conts, McpContainerName(name))
    /\ ByName(conts, McpContainerName(name)).status = "running"
TypeOf(cfgs, name) == IF HasMcp(cfgs, name) THEN get_mcp(cfgs, name).type ELSE "unconfigured"

\* C2: remove_mcp(name) for a name configured as a docker or proxy MCP
\* completes without raising and returns True; afterwards the list has no
\* entry of that name and the container mc_mcp_<name> is not running.
C2_RemoveStopsContainer ==
    [][(last'.op = "remove_mcp" /\ TypeOf(mcps, last'.name) \in {"docker", "proxy"})
        => /\ ~last'.exc
           /\ last'.ret = "True"
           /\ ~HasMcp(mcps', last'.name)
           /\ ~McpRunning(containers', last'.name)]_vars

\* C3: start_mcp(name) for an MCP whose current configuration is remote
\* returns not_applicable and creates or starts no container, whatever
\* containers exist.
C3_RemoteStartNotApplicable ==
    [][(last'.op = "start_mcp" /\ TypeOf(mcps, last'.name) = "remote")
        => /\ ~last'.exc
           /\ last'.ret = "not_applicable"
           /\ containers' = containers]_vars

McpOf(conts, name) == ByName(conts, McpContainerName(name))
HasMcpContainer(conts, name) == Exists(conts, McpContainerName(name))

\* two start_mcp calls of one name in a row: the second returns the id the
\* first returned and neither removes nor creates a container
ConsecutiveStartsReuse ==
    (/\ last.op = "start_mcp" /\ ~last.exc /\ last.ret = "running"
     /\ last'.op = "start_mcp" /\ last'.name = last.name /\ ~last'.exc)
        => /\ last'.cid = last.cid
           /\ Ids(containers') = Ids(containers)

\* start_mcp of a proxy MCP whose container was created under another
\* host port: the container is removed and the id returned is that of a new
\* container bound to the configured port
RecreatedOnPortChange(name) ==
    LET c == McpOf(containers, name)
        hp == get_mcp(mcps, name).host_port
    IN  /\ c.id \notin Ids(containers')
        /\ last'.cid # c.id
        /\ last'.cid \in Ids(containers')
        /\ ById(containers', last'.cid).name = McpContainerName(name)
        /\ ById(containers', last'.cid).bind.host = hp

PortChanged(name) ==
    /\ TypeOf(mcps, name) = "proxy"
    /\ HasMcpContainer(containers, name)
    /\ McpOf(containers, name).bind.host # get_mcp(mcps, name).host_port

C6_StopIdempotent ==
    [][(last'.op = "stop_mcp" /\ HasMcp(mcps, last'.name))
        => LET n == last'.name
           IN  /\ ~last'.exc
               /\ last'.ret \in {"True", "False"}
               /\ networks' = networks /\ mcps' = mcps
               /\ TypeOf(mcps, n) = "remote"
                    => last'.ret = "True" /\ containers' = containers
               /\ (TypeOf(mcps, n) # "remote" /\ last'.ret = "True")
                    => /\ McpRunning(containers, n)
                       /\ containers' = SetStatus(containers,
                                            McpOf(containers, n).id, "exited")
               /\ (TypeOf(mcps, n) # "remote" /\ ~McpRunning(containers, n))
                    => last'.ret = "False" /\ containers' = containers
               /\ last'.ret = "False" => containers' = containers]_vars

\* a stop of a container that an earlier stop left exited
C6_Witness ==
    /\ last.op = "stop_mcp"
    /\ last.ret = "False"
    /\ last.note = "notrunning"
    /\ HasMcpContainer(containers, last.name)
    /\ McpOf(containers, last.name).status = "exited"

ReadOps == {"get_mcp_status", "get_mcp_logs"}
StructuredResults ==
    {"not_applicable", "running", "stopped", "not_found", "failed",
     "msg_remote", "msg_not_found", "msg_error", "logs"}

\* C7 as claimed: get_mcp_status and get_mcp_logs leave the configuration
\* and every container unchanged and, for any name, return a structured
\* result instead of raising.
C7_Claimed ==
    [][(last'.op \in ReadOps)
        => /\ mcps' = mcps /\ containers' = containers /\ networks' = networks
           /\ ~last'.exc
           /\ last'.ret \in StructuredResults]_vars

\* C7 as amended: they leave the configuration and every container
\* unchanged; for a configured name they return a structured result instead
\* of raising, for a name that is not configured they raise ValueError.
C7_ReadOnlyStructured ==
    [][(last'.op \in ReadOps)
        => /\ mcps' = mcps /\ containers' = containers /\ networks' = networks
           /\ HasMcp(mcps, last'.name)
                => ~last'.exc /\ last'.ret \in StructuredResults
           /\ ~HasMcp(mcps, last'.name)
                => last'.exc /\ last'.note = "ValueError"]_vars

\* the runtime failed under get_mcp_status and the caller got "failed"
C7_Witness ==
    /\ last.op = "get_mcp_status"
    /\ last.ret = "failed"
    /\ ~last.exc
    /\ HasMcpContainer(containers, last.name)

SessionContainers(conts) == {c \in conts : c.kind = "session"}
\* the session containers create_session started, i.e. those of the calls
\* that returned a Session
Started(conts) == {c \in SessionContainers(conts) : c.status # "created"}
Carried(conts, sid) == \E c \in SessionContainers(conts) : c.sid = sid

\* C1: when start_mcp fails for one docker/proxy MCP of the list, the
\* session create_session returns does not have the failing MCP's name in
\* its attached MCPs (Session.mcps, the mc.mcps label, MCP_NAMES, and
\* MCP_COUNT counts the attached ones), and every MCP that started is
\* attached.
C1_Claimed ==
    (last.op = "create_session" /\ last.ret = "Session")
        => \A s \in last.sess :
             LET c == ById(containers, s.container_id)
                 dropped == last.failed \ last.started
             IN  /\ dropped \cap Range(s.mcps) = {}
                 /\ dropped \cap Range(c.mcpsLabel) = {}
                 /\ dropped \cap Range(c.env.names) = {}
                 /\ s.mcps # <<>> => c.env.count = Len(s.mcps)
                 /\ last.started \subseteq Range(s.mcps)

\* C8: two successful create_session calls yield sessions with distinct
\* session ids and distinct container ids, and a list_sessions issued
\* afterwards contains both session ids.
C8_Claimed ==
    /\ \A c1, c2 \in Started(containers) :
            c1 # c2 => c1.sid # c2.sid /\ c1.id # c2.id
    /\ last.op = "list_sessions"
            => \A c \in Started(containers) : c.sid \in {x.id : x \in last.list}

\* C9: close_session(id) for an id no session container carries returns
\* False without raising and leaves the Session Store and every container
\* as they were.
C9_CloseUnknown ==
    [][(last'.op = "close_session" /\ ~Carried(containers, last'.name))
        => /\ last'.ret = "False"
           /\ ~last'.exc
           /\ store' = store
           /\ containers' = containers
           /\ networks' = networks]_vars

\* close_session found no container for the id while another session is
\* alive and the store holds records
C9_Witness ==
    /\ last.op = "close_session"
    /\ last.note = "notfound"
    /\ last.ret = "False"
    /\ ~Carried(containers, last.name)
    /\ SessionContainers(containers) # {}
    /\ DOMAIN store # {}

\* the store holds a record for sid and the runtime has no container for it
Stale(st, conts, sid) ==
    /\ HasSession(st, sid)
    /\ get_session(st, sid).container_id \notin Ids(conts)
    /\ ~Carried(conts, sid)

StoreOps == {"connect_session", "close_session"}

\* C10 as claimed: with a stale record for id, connect_session(id) or
\* close_session(id) (the runtime answering) removes the record from the
\* Session Store and returns False instead of raising.
C10_Claimed ==
    [][(last'.op \in StoreOps /\ last'.note # "error"
            /\ Stale(store, containers, last'.name))
        => /\ last'.ret = "False"
           /\ ~last'.exc
           /\ ~HasSession(store', last'.name)]_vars

\* C10 as amended: with a stale record for id, connect_session(id) (the
\* runtime answering not-found) removes the record and returns False;
\* close_session(id) returns False and leaves the record in the store.
C10_StalePurgedOnConnect ==
    [][(last'.op \in StoreOps /\ last'.note # "error"
            /\ Stale(store, containers, last'.name))
        => /\ last'.ret = "False"
           /\ ~last'.exc
           /\ containers' = containers
           /\ last'.op = "connect_session"
                => store' = remove_session(store, last'.name)
                   /\ ~HasSession(store', last'.name)
           /\ last'.op = "close_session" => store' = store]_vars

\* connect_session purged the record of a session whose container is gone
C10_Witness ==
    /\ last.op = "connect_session"
    /\ last.note = "stale"
    /\ last.ret = "False"
    /\ ~HasSession(store, last.name)
    /\ last.cid \notin Ids(containers)

NoDuplicateNames ==
    \A i, j \in DOMAIN mcps : mcps[i].name = mcps[j].name => i = j

\* C5: after any sequence of add_*_mcp and remove_mcp calls no two entries
\* of the MCP list have the same name; adding a name already present leaves
\* the length of the list unchanged and the entry of that name is the one
\* just added (type and fields).
C5_AddReplaces ==
    /\ []NoDuplicateNames
    /\ [][(last'.op \in McpOps)
            => /\ HasMcp(mcps', last'.name)
               /\ last'.entry = {get_mcp(mcps', last'.name)}
               /\ last'.entry = {mcps'[Len(mcps')]}
               /\ HasMcp(mcps, last'.name) => Len(mcps') = Len(mcps)]_vars

\* an add replaced an entry of another type while a second MCP is configured
C5_Witness ==
    /\ last.op = "add_remote_mcp"
    /\ last.note = "replaced"
    /\ Len(mcps) = 2
    /\ last.entry = {RemoteMCP(last.name, 2)}

----------------------------------------------------------------------------
(* close_all_sessions *)

\* the listed sessions whose container a worker found missing in the runtime
NotFoundOnes(ca) == {cid \in DOMAIN ca.res : ca.res[cid] = "notfound"}
\* the listed sessions one of whose runtime calls raised another error
RuntimeErrors(ca) == {cid \in DOMAIN ca.res : ca.res[cid] = "error"}
Returning == closeAll.phase = "running" /\ closeAll'.phase = "returned"

\* C11: when close_all_sessions returns after listing N sessions of which
\* exactly one container was removed out of band after the listing (and no
\* other runtime call failed), the other N-1 containers are gone from the
\* runtime, the closed count is N-1, and nothing was raised.
C11_CloseAllOneRemoved ==
    [][(/\ Returning
        /\ Cardinality(NotFoundOnes(closeAll)) = 1
        /\ RuntimeErrors(closeAll) = {})
        => /\ closeAll'.closed = Cardinality(closeAll.listed) - 1
           /\ ~last'.exc
           /\ last'.ret = (IF Cardinality(closeAll.listed) > 1 THEN "True" ELSE "False")
           /\ \A x \in closeAll.listed :
                 x.container_id \notin NotFoundOnes(closeAll)
                     => /\ x.container_id \notin Ids(containers')
                        /\ closeAll.res[x.container_id] = "completed"]_vars

\* close_all_sessions returned 1 after listing two sessions, one of them
\* removed out of band
C11_Witness ==
    /\ closeAll.phase = "returned"
    /\ Cardinality(closeAll.listed) = 2
    /\ Cardinality(NotFoundOnes(closeAll)) = 1
    /\ closeAll.closed = 1
    /\ last.op = "close_all_sessions"
    /\ last.ret = "True"
    /\ SessionContainers(containers) = {}

\* C12: in close_all_sessions every listed session gets its close attempted
\* whatever happens to the others: at every moment a worker that is done has
\* told the progress callback exactly once, "completed" exactly when it
\* closed its session and "failed" otherwise, a worker that is not done has
\* not told it yet, and when close_all_sessions returns every worker is done.
C12_EveryCloseAttempted ==
    \A x \in closeAll.listed :
        LET cid == x.container_id
        IN  /\ closeAll.phase = "returned" => closeAll.pc[cid] = "done"
            /\ closeAll.pc[cid] # "done" => closeAll.cb[cid] = <<>>
            /\ closeAll.pc[cid] = "done"
                => /\ closeAll.cb[cid] \in {<<"completed">>, <<"failed">>}
                   /\ closeAll.cb[cid] = <<"completed">>
                        <=> closeAll.res[cid] = "completed"
                   /\ closeAll.res[cid] = "completed" => cid \notin Ids(containers)

\* close_all_sessions returned after one worker failed on a runtime error and
\* the other closed its session
C12_Witness ==
    /\ closeAll.phase = "returned"
    /\ \E c1, c2 \in DOMAIN closeAll.cb :
          /\ closeAll.res[c1] = "error"
          /\ closeAll.cb[c1] = <<"failed">>
          /\ closeAll.cb[c2] = <<"completed">>

----------------------------------------------------------------------------
(* create_session: failures *)

RuntimeSteps == {"pull", "create", "start"}

\* C13: a create_session call in which the image pull, the container
\* creation or the container start fails returns None without raising and
\* leaves the Session Store as it was; and whenever a record is written to
\* the store, it is the record of a container created by that very call
\* and running.
C13_FailedCreateRegistersNothing ==
    /\ [][(last'.op = "create_session" /\ last'.failAt \in RuntimeSteps)
            => /\ last'.ret = "None"
               /\ ~last'.exc
               /\ last'.sess = {}
               /\ store' = store]_vars
    /\ [][\A sid \in DOMAIN store' :
            (sid \notin DOMAIN store \/ store'[sid] # store[sid])
                => /\ last'.op = "create_session"
                   /\ last'.ret = "Session"
                   /\ store'[sid].container_id \notin Ids(containers)
                   /\ \E c \in containers' :
                         /\ c.id = store'[sid].container_id
                         /\ c.status = "running"
                         /\ c.sid = sid]_vars

\* the start of the container failed while the store holds the record of
\* an earlier session: the created container stays in the runtime, unrecorded
C13_Witness ==
    /\ last.op = "create_session"
    /\ last.failAt = "start"
    /\ last.ret = "None"
    /\ DOMAIN store # {}
    /\ \E c \in SessionContainers(containers) :
          /\ c.status = "created"
          /\ \A sid \in DOMAIN store : store[sid].container_id # c.id

\* C14: create_session with a driver name the registry does not resolve
\* returns None and leaves everything as it was: no network, no container
\* (session or MCP), no host directory, no Session Store record.
C14_UnknownDriverNoState ==
    [][(last'.op = "create_session" /\ last'.driver \notin Drivers)
        => /\ last'.ret = "None"
           /\ ~last'.exc
           /\ networks' = networks
           /\ containers' = containers
           /\ nextCid' = nextCid
           /\ host' = host
           /\ store' = store
           /\ mcps' = mcps]_vars

\* the unknown driver was asked for in a fresh environment with MCPs
\* configured: still no network, container, directory or record
C14_Witness ==
    /\ last.op = "create_session"
    /\ last.driver = "nodriver"
    /\ last.ret = "None"
    /\ mcps # <<>>
    /\ networks = {}
    /\ containers = {}
    /\ host.dirs = {}
    /\ store = <<>>

----------------------------------------------------------------------------
(* list_sessions *)

\* the runtime containers labelled mc.session that carry an mc.session.id
Labelled(conts) == {c \in conts : c.kind = "session" /\ c.sid # ""}

\* C15: when the runtime answers, list_sessions returns exactly one session
\* per runtime container labelled as a session with a session id, with
\* status stopped for an exited container, creating for a created one and
\* running otherwise; the result is determined by the runtime alone
\* (whatever the Session Store holds), and neither the store nor the
\* runtime changes.
C15_ListFromRuntime ==
    [][(last'.op = "list_sessions" /\ last'.note # "error")
        => /\ \A c \in Labelled(containers) :
                 \E s \in last'.list :
                    /\ s.container_id = c.id
                    /\ s.id = c.sid
                    /\ s.name = c.name
                    /\ c.status = "exited" => s.status = "stopped"
                    /\ c.status = "created" => s.status = "creating"
                    /\ c.status \notin {"exited", "created"} => s.status = "running"
           /\ {s.container_id : s \in last'.list} = {c.id : c \in Labelled(containers)}
           /\ Cardinality(last'.list) = Cardinality(Labelled(containers))
           /\ store' = store
           /\ containers' = containers
           /\ networks' = networks]_vars

\* a listing while the store disagrees with the runtime (its record says
\* running, the container has exited) and another tool's labelled container
\* without session id is present: one session, stopped
C15_Witness ==
    /\ last.op = "list_sessions"
    /\ last.note # "error"
    /\ Cardinality(last.list) = 1
    /\ \E s \in last.list :
          /\ s.status = "stopped"
          /\ HasSession(store, s.id)
          /\ get_session(store, s.id).status = "running"
    /\ \E c \in SessionContainers(containers) : c.sid = ""

----------------------------------------------------------------------------
(* connect_session *)

\* C16 as claimed: connect_session hands the terminal over to an exec
\* session only in a container that is running, whether the container id
\* came from the Session Store or from the runtime listing.
C16_Claimed ==
    [][(last'.op = "connect_session" /\ last'.ret = "exec")
        => \E c \in containers : c.id = last'.cid /\ c.status = "running"]_vars

----------------------------------------------------------------------------
(* Project configuration directories *)

\* the create_session call returned a Session
Created(l) == l.op = "create_session" /\ l.ret = "Session"

\* C17 as claimed: two create_session calls given the same project
\* identifier and the same driver bind the same host directory at
\* /mc-config, whatever the working directory and the mount_local flag of
\* either call.
C17_Claimed ==
    [][(/\ Created(last) /\ Created(last')
        /\ last.project = last'.project
        /\ last.driver = last'.driver)
        => ById(containers', last'.cid).config = ById(containers, last.cid).config]_vars

Resolved(l) == l.op = "get_project_config_path"
\* the step is the user's change of directory, not a call
WorkDirChanges == host'.cwd # host.cwd

\* C18: _get_project_config_path returns the directory named by the hash of
\* its identifier, the working directory standing in for a missing
\* identifier; the directory exists afterwards; and a call that follows a
\* call with the same identifier (for no identifier: from the same working
\* directory) returns the same path and changes nothing on disk.
C18_ResolveDeterministic ==
    [][(Resolved(last') /\ ~WorkDirChanges)
        => /\ last'.project # "" => last'.path = {ConfigPath(last'.project)}
           /\ last'.project = "" => last'.path = {ConfigPath(host.cwd)}
           /\ last'.path \subseteq host'.dirs
           /\ host.dirs \subseteq host'.dirs
           /\ (/\ Resolved(last)
               /\ last.project = last'.project
               /\ (last.project = "" => last.cwd = last'.cwd))
                => /\ last'.path = last.path
                   /\ host' = host]_vars

\* a second resolution without identifier, from a working directory whose
\* configuration directory already existed beside another project's
C18_Witness ==
    /\ Resolved(last)
    /\ last.project = ""
    /\ last.note = "existed"
    /\ last.cwd = "/w/p2"
    /\ last.path = {ConfigPath("/w/p2")}
    /\ ConfigPath("git1") \in host.dirs

----------------------------------------------------------------------------
(* Driver registry *)

\* C19 as claimed: for a driver name the package bundles and for which the
\* user supplied a manifest too, get_driver returns the bundled definition
\* and list_drivers lists the name with the bundled definition.
C19_Claimed ==
    [][/\ (last'.op = "get_driver"
            /\ last'.name \in DOMAIN BundledDrivers /\ last'.name \in reg.user)
          => last'.ret = BundledDrivers[last'.name]
       /\ last'.op = "list_drivers"
          => \A n \in DOMAIN BundledDrivers \cap reg.user :
                [name |-> n, def |-> BundledDrivers[n]] \in last'.list]_vars

----------------------------------------------------------------------------
(* Remote MCPs of a session *)

\* C20: when create_session returns a session, then for every position i
\* of its MCP list that names a configured remote MCP the recorded
\* environment has MCP_<i>_URL equal to the MCP's url, MCP_<i>_TYPE equal to
\* remote and MCP_<i>_NAME equal to its name, and the call neither created
\* nor started a container for that MCP.
C20_RemoteMcpEnvironment ==
    [][Created(last')
        => \A s \in last'.sess :
           \A p \in DOMAIN s.mcps :
              LET name == s.mcps[p]
                  i == p - 1
              IN  (HasMcp(mcps, name) /\ get_mcp(mcps, name).type = "remote")
                    => /\ i \in DOMAIN s.env.idx
                       /\ s.env.idx[i].URL = get_mcp(mcps, name).def
                       /\ s.env.idx[i].TYPE = "remote"
                       /\ s.env.idx[i].NAME = name
                       /\ Named(containers', McpContainerName(name))
                            = Named(containers, McpContainerName(name))
                       /\ name \notin last'.started]_vars

\* a session with the remote MCP a attached at index 1, after the docker
\* MCP b at index 0 failed to start: no container for a
C20_Witness ==
    /\ Created(last)
    /\ \E s \in last.sess :
          /\ s.mcps = <<"b", "a">>
          /\ get_mcp(mcps, "a").type = "remote"
          /\ s.env.idx[1].TYPE = "remote"
          /\ s.env.idx[1].URL = 1
    /\ "b" \in last.failed
    /\ ~Exists(containers, McpContainerName("a"))

----------------------------------------------------------------------------
(* close_all_sessions: the aggregate result *)

\* close_all_sessions has just returned
ClosedAll == last.op = "close_all_sessions" /\ closeAll.phase = "returned"
\* the listed sessions a worker closed: container stopped and removed, store
\* record deleted
ClosedOnes == {x \in closeAll.listed : closeAll.res[x.container_id] = "completed"}

----------------------------------------------------------------------------
(* create_session: the network connections *)

\* the positions of a kind of effect in the effects of one execution
StepsOf(steps, kinds) == {p \in DOMAIN steps : steps[p].k \in kinds}
\* a connect to the network n was tried
Tried(steps, n) ==
    \E p \in StepsOf(steps, {"connect", "connect_error"}) : steps[p].n = n

\* the step is a create_session execution (the other steps of this
\* specification leave its record and the container ids alone)
CreateStep ==
    /\ last'.op = "create_session"
    /\ last' # last \/ nextCid' # nextCid

\* C22: a failure to connect the session container to a network, user-given
\* or dedicated to an MCP, does not fail create_session: a connect is tried
\* for every other network, the session is returned and it is in the store.
C22_ConnectFailureTolerated ==
    [][(/\ CreateStep
        /\ StepsOf(last'.steps, {"connect_error"}) # {})
        => /\ last'.ret = "Session"
           /\ HasSession(store', last'.name)
           /\ get_session(store', last'.name) \in last'.sess
           /\ \E c \in containers' : /\ c.id = last'.cid
                                     /\ c.status = "running"
                                     /\ DefaultNetwork \in c.nets
           /\ \A n \in Range(last'.nets) \ {DefaultNetwork} : Tried(last'.steps, n)
           /\ \A s \in last'.sess : \A p \in DOMAIN s.mcps :
                  DedicatedNetwork(s.mcps[p]) \in networks
                      => Tried(last'.steps, DedicatedNetwork(s.mcps[p]))]_vars

\* the connect to the first user network failed both times it was tried, the
\* connects to the second one and to the dedicated network of the MCP went
\* through, and the session was returned
C22_Witness ==
    /\ last.op = "create_session"
    /\ last.ret = "Session"
    /\ last.nets = <<"net1", "net2">>
    /\ \E p, q \in StepsOf(last.steps, {"connect_error"}) :
          /\ p < q
          /\ last.steps[p].n = "net1"
          /\ last.steps[q].n = "net1"
          /\ \E u, v \in StepsOf(last.steps, {"connect"}) :
                /\ p < u /\ u < v /\ v < q
                /\ last.steps[u].n = "net2"
                /\ last.steps[v].n = DedicatedNetwork("a")
    /\ \E c \in containers : c.id = last.cid
                             /\ c.nets = {DefaultNetwork, "net2", DedicatedNetwork("a")}

----------------------------------------------------------------------------
(* restart_mcp *)

\* the results start_mcp can give in the state before the step
StartResults(name) ==
    {start_mcp(mcps, name, containers, networks, nextCid, f) : f \in BOOLEAN}

\* C23: restart_mcp(name) of a docker or proxy MCP whose container exists
\* restarts that container and returns its unchanged id with status running
\* (or raises the error of the runtime, changing nothing); when the
\* container does not exist it has the effect and the result of
\* start_mcp(name); for a remote MCP it touches no container and returns
\* not_applicable.
C23_Restart ==
    [][(last'.op = "restart_mcp" /\ HasMcp(mcps, last'.name)) =>
        LET name == last'.name
        IN  IF TypeOf(mcps, name) = "remote"
            THEN /\ ~last'.exc
                 /\ last'.ret = "not_applicable"
                 /\ containers' = containers
            ELSE IF HasMcpContainer(containers, name)
            THEN \/ /\ last'.exc
                    /\ containers' = containers
                 \/ /\ ~last'.exc
                    /\ last'.ret = "running"
                    /\ last'.cid = McpOf(containers, name).id
                    /\ containers' = SetStatus(containers, last'.cid, "running")
                    /\ McpRunning(containers', name)
            ELSE \E r \in StartResults(name) :
                    /\ last'.exc = r.exc
                    /\ last'.ret = r.ret
                    /\ last'.cid = r.cid
                    /\ containers' = r.containers
                    /\ networks' = r.networks]_vars

\* an existing MCP container was restarted: same id, running
C23_Witness ==
    /\ last.op = "restart_mcp"
    /\ last.note = "restarted"
    /\ last.ret = "running"
    /\ TypeOf(mcps, last.name) \in {"docker", "proxy"}
    /\ McpRunning(containers, last.name)
    /\ McpOf(containers, last.name).id = last.cid

\* the connects of one execution: to a dedicated MCP network, to a user network
Connects == {"connect", "connect_error"}
DedicatedNets == {DedicatedNetwork(m) : m \in McpNames}
DedicatedTries(steps) ==
    {p \in StepsOf(steps, Connects \cup {"network_not_found"}) :
        steps[p].n \in DedicatedNets}
UserTries(steps) ==
    {p \in StepsOf(steps, Connects) : steps[p].n \notin DedicatedNets}
\* no connect to that network was tried before
FirstTry(steps, p) ==
    \A e \in StepsOf(steps, Connects) : e < p => steps[e].n # steps[p].n
\* the container start is the effect before every connect
AfterStart(steps) ==
    \A p \in StepsOf(steps, Connects \cup {"network_not_found"}) :
        \E q \in StepsOf(steps, {"start"}) : q < p

\* C24 as claimed: the session container joins the primary network at
\* creation, then the dedicated network of every attached MCP, then the
\* user networks, every connect after the container start.
C24_Claimed ==
    [][CreateStep =>
        /\ AfterStart(last'.steps)
        /\ \A p \in DedicatedTries(last'.steps), q \in UserTries(last'.steps) :
               (last'.steps[p].k = "connect" /\ last'.steps[q].k = "connect")
                   => p < q]_vars

\* C24: the session container joins the primary network at creation; after
\* the container start it is connected to the user networks in the order
\* given, then to the dedicated network of every attached MCP in the order
\* attached, and last to the user networks a second time where the first
\* connect failed.
C24_ConnectOrder ==
    [][CreateStep =>
        LET steps == last'.steps
        IN  /\ AfterStart(steps)
            /\ \A c \in containers' : c.id = last'.cid => DefaultNetwork \in c.nets
            \* every user network is tried before any dedicated network
            /\ StepsOf(steps, {"start"}) # {} =>
                   \A n \in Range(last'.nets) \ {DefaultNetwork} :
                       \E q \in UserTries(steps) :
                           /\ steps[q].n = n
                           /\ \A p \in DedicatedTries(steps) : q < p
            \* a user network tried after a dedicated one failed before it
            /\ \A p \in DedicatedTries(steps), q \in UserTries(steps) :
                   p < q => \E e \in StepsOf(steps, {"connect_error"}) :
                                e < p /\ steps[e].n = steps[q].n
            \* in the order given, in the order attached
            /\ \A p, q \in UserTries(steps) :
                   (p < q /\ FirstTry(steps, p) /\ FirstTry(steps, q))
                       => \E i, j \in DOMAIN last'.nets :
                              /\ i < j
                              /\ last'.nets[i] = steps[p].n
                              /\ last'.nets[j] = steps[q].n
            /\ \A s \in last'.sess :
                   \A p, q \in DedicatedTries(steps) :
                       p < q => \E i, j \in DOMAIN s.mcps :
                                    /\ i < j
                                    /\ DedicatedNetwork(s.mcps[i]) = steps[p].n
                                    /\ DedicatedNetwork(s.mcps[j]) = steps[q].n]_vars

\* a session was connected to a user network and then to the dedicated
\* network of its MCP
C24_Witness ==
    /\ last.op = "create_session"
    /\ last.ret = "Session"
    /\ \E p, q \in StepsOf(last.steps, {"connect"}) :
          /\ p < q
          /\ last.steps[p].n = "net1"
          /\ last.steps[q].n = DedicatedNetwork("a")
    /\ \E c \in containers :
          c.id = last.cid /\ {"net1", DedicatedNetwork("a")} \subseteq c.nets

\* C25: the effects of one create_session execution come one after another:
\* every start_mcp call and every injection of MCP variables precedes the
\* creation of the container, the container start precedes every connect,
\* and the write to the Session Store is the last effect.
C25_Sequential ==
    [][CreateStep =>
        LET steps == last'.steps
        IN  /\ \A p \in StepsOf(steps, {"start_mcp", "env"}) :
                   \A q \in StepsOf(steps, {"create", "start"} \cup Connects) : p < q
            /\ \A p \in StepsOf(steps, {"create"}) :
                   \A q \in StepsOf(steps, {"start"}) : p < q
            /\ AfterStart(steps)
            /\ \A p \in StepsOf(steps, {"add_session"}) : p = Len(steps)
            /\ Cardinality(StepsOf(steps, {"create"})) <= 1
            /\ Cardinality(StepsOf(steps, {"start"})) <= 1
            /\ last'.ret = "Session" <=> StepsOf(steps, {"add_session"}) # {}
            /\ last'.ret = "Session" =>
                   /\ steps[Len(steps)] = Step("add_session", last'.name)
                   /\ HasSession(store', last'.name)]_vars

\* a session with a started MCP and a user network: start_mcp, the MCP
\* variables, create, start, connect and the store write all happened
C25_Witness ==
    /\ last.op = "create_session"
    /\ last.ret = "Session"
    /\ last.started # {}
    /\ \A k \in {"start_mcp", "env", "create", "start", "connect", "add_session"} :
          StepsOf(last.steps, {k}) # {}
    /\ HasSession(store, last.name)

\* the MCP container of that name answers under the name on the network
ReachableOn(conts, name, net) ==
    /\ HasMcpContainer(conts, name)
    /\ net \in McpOf(conts, name).nets
    /\ McpOf(conts, name).alias = name

\* C26 as claimed: after create_session returns a session to which a docker
\* or proxy MCP was attached that started, the session container and the MCP
\* container are connected to a common network on which the MCP is reachable
\* under its logical name.
C26_Claimed ==
    [][(CreateStep /\ last'.ret = "Session") =>
        \A m \in last'.started :
            \E c \in containers' :
                /\ c.id = last'.cid
                /\ \E net \in c.nets : ReachableOn(containers', m, net)]_vars

----------------------------------------------------------------------------
(* add_proxy_mcp: the host port *)

\* the host ports of the configured proxy MCPs
ProxyPorts(cfgs) ==
    {cfgs[i].host_port : i \in {j \in DOMAIN cfgs : cfgs[j].type = "proxy"}} \ {0}
\* the lowest port from 5101 on that no configured proxy MCP has
LowestFree(cfgs) ==
    CHOOSE p \in (BasePort + 1) .. (BasePort + MaxPortOffset + 1) :
        /\ p \notin ProxyPorts(cfgs)
        /\ \A q \in (BasePort + 1) .. (p - 1) : q \in ProxyPorts(cfgs)
\* the step is add_proxy_mcp called without a host port
AutoAssigned == last'.op = "add_proxy_mcp" /\ last'.host_port = NoPort

\* C27 as claimed: add_proxy_mcp with host_port unset assigns the lowest port
\* >= 5101 that no existing proxy MCP has.
C27_Claimed ==
    [][AutoAssigned =>
        \A e \in last'.entry : e.host_port = LowestFree(mcps)]_vars

\* C27: add_proxy_mcp with host_port unset assigns one more than the highest
\* host port of the existing proxy MCPs, and 5101 when no proxy MCP has a
\* port above 5100: a port >= 5101 above the port of every existing proxy
\* MCP, lower free ports being left unused.
C27_NextAfterHighest ==
    [][AutoAssigned =>
        \A e \in last'.entry :
            /\ e.host_port >= BasePort + 1
            /\ \A p \in ProxyPorts(mcps) : e.host_port > p
            /\ \/ e.host_port = BasePort + 1
               \/ e.host_port - 1 \in ProxyPorts(mcps)
            /\ ProxyPorts(mcps) = {} => e.host_port = BasePort + 1
            /\ get_mcp(mcps', last'.name) = e]_vars

\* a port was assigned above a free one: 5103 with 5101 unused
C27_Witness ==
    /\ last.op = "add_proxy_mcp"
    /\ last.host_port = NoPort
    /\ \E e \in last.entry : /\ e.host_port = BasePort + 3
                             /\ get_mcp(mcps, last.name) = e
    /\ BasePort + 1 \notin ProxyPorts(mcps)
    /\ BasePort + 2 \in ProxyPorts(mcps)

\* C28 as claimed: whatever add_proxy_mcp calls (with or without a host
\* port) and remove_mcp calls were made, no two configured proxy MCPs have
\* the same host port.
C28_Claimed ==
    \A i, j \in DOMAIN mcps :
        (/\ i # j
         /\ mcps[i].type = "proxy" /\ mcps[j].type = "proxy"
         /\ mcps[i].host_port # 0)
            => mcps[i].host_port # mcps[j].host_port

----------------------------------------------------------------------------
(* create_session: the MCP variables of the environment *)

\* C29 as claimed: in the environment of every created session MCP_COUNT is
\* the number of entries of MCP_NAMES, for every index i < MCP_COUNT the
\* variables MCP_<i>_NAME, MCP_<i>_TYPE and MCP_<i>_URL are set and
\* MCP_<i>_NAME is the i-th entry of MCP_NAMES; with no MCP attached no
\* MCP_* variable is set.
C29_Claimed ==
    (last.op = "create_session" /\ last.ret = "Session")
        => \A s \in last.sess :
             IF s.mcps = <<>>
             THEN s.env = NoEnv
             ELSE /\ s.env.count = Len(s.env.names)
                  /\ \A i \in 0 .. (s.env.count - 1) :
                         /\ i \in DOMAIN s.env.idx
                         /\ {"NAME", "TYPE", "URL"} \subseteq s.env.idx[i].keys
                         /\ s.env.idx[i].NAME = s.env.names[i + 1]

----------------------------------------------------------------------------
(* start_mcp: the container and the configured definition *)

\* C30 as claimed: whenever start_mcp(name) returns running for a docker or
\* proxy MCP, the running container mc_mcp_<name> was created from the
\* definition configured now (type, image, command, env), also when a
\* later add of the same name replaced the entry after a container had been
\* created.
C30_Claimed ==
    [][(/\ last'.op = "start_mcp"
        /\ last'.ret = "running"
        /\ TypeOf(mcps, last'.name) \in {"docker", "proxy"})
        => /\ McpRunning(containers', last'.name)
           /\ McpOf(containers', last'.name).type = get_mcp(mcps, last'.name).type
           /\ McpOf(containers', last'.name).def = get_mcp(mcps, last'.name).def]_vars

----------------------------------------------------------------------------
(* close_session: the result and the Session Store *)

\* C31: close_session(id) returns True only if the container of the session
\* it closed has been stopped and removed from the runtime and the record of
\* id has been deleted from the Session Store; whenever it returns False the
\* Session Store holds every record it held before the call.
C31_CloseResult ==
    [][last'.op = "close_session" =>
        /\ last'.ret \in {"True", "False"}
        /\ ~last'.exc
        /\ last'.ret = "True" =>
               /\ last'.cid \notin Ids(containers')
               /\ ~HasSession(store', last'.name)
        /\ last'.ret = "False" => store' = store]_vars

\* one of two sessions was closed: its container and its record are gone,
\* the record of the other session is still in the store
C31_Witness ==
    /\ last.op = "close_session"
    /\ last.ret = "True"
    /\ last.cid \notin Ids(containers)
    /\ ~HasSession(store, last.name)
    /\ \E sid \in SessionIds : sid # last.name /\ HasSession(store, sid)

----------------------------------------------------------------------------
(* close_all_sessions: the workers and the file of the Session Store *)

\* C32 as claimed: when close_all_sessions returns, under every interleaving
\* of its workers, the Session Store on disk holds no record of a session
\* counted as closed and still holds the record of every session that was
\* not closed.
C32_Claimed ==
    ClosedAll =>
        \A x \in closeAll.listed :
            IF x \in ClosedOnes
            THEN ~HasSession(store, x.id)
            ELSE (/\ x.id \notin {y.id : y \in ClosedOnes}
                  /\ HasSession(closeAll.mem, x.id))
                     => /\ HasSession(store, x.id)
                        /\ get_session(store, x.id) = get_session(closeAll.mem, x.id)

----------------------------------------------------------------------------
(* Two invocations writing the same file *)

\* the invocation that wrote in this step
Wrote(p) == host.procs[p].pc = "loaded" /\ host'.procs[p].pc = "done"

\* C33: an invocation writes the file from what it loaded when it started,
\* with its own update applied, whatever another invocation wrote in
\* between: with no lock taken, the update of the other invocation is lost
\* unless it was loaded.
C33_LastWriterWins ==
    [][\A p \in Procs : Wrote(p) =>
        /\ last'.op = "add_remote_mcp"
              => /\ mcps' = Added(host.procs[p].mcps, CHOOSE e \in last'.entry : TRUE)
                 /\ \A n \in McpNames :
                        (n # last'.name /\ ~HasMcp(host.procs[p].mcps, n))
                            => ~HasMcp(mcps', n)
        /\ last'.op = "add_session"
              => /\ HasSession(store', last'.name)
                 /\ \A sid \in SessionIds \ {last'.name} :
                        HasSession(store', sid) <=> HasSession(host.procs[p].store, sid)
        /\ (last'.op = "remove_session" /\ HasSession(host.procs[p].store, last'.name))
              => \A sid \in SessionIds :
                     HasSession(store', sid)
                         <=> (sid # last'.name /\ HasSession(host.procs[p].store, sid))]_vars

\* both invocations added an MCP, of different names, and returned; the file
\* holds only the entry of the one that wrote last
C33_Witness ==
    /\ host.procs["p1"] = ProcDone("add_remote_mcp", "a")
    /\ host.procs["p2"] = ProcDone("add_remote_mcp", "b")
    /\ mcps = <<RemoteMCP("b", 1)>>
    /\ last.op = "add_remote_mcp"
    /\ last.name = "b"

\* an invocation that is between the listing and the creation of _ensure_network
Ensuring(p) == host.procs[p].pc \in {"present", "absent"}
\* an invocation whose _ensure_network returned
Ensured(p) == \E n \in {"present", "created"} : host.procs[p].upd = {<<"_ensure_network", n>>}

\* C34: once some create_session has been through _ensure_network and none
\* is inside it, exactly one network of the primary name exists.
C34_Claimed ==
    ((\E p \in Procs : Ensured(p)) /\ (\A p \in Procs : ~Ensuring(p)))
        => PrimaryNetworks(networks, host) = 1

----------------------------------------------------------------------------
(* The project and the volumes of a session *)

\* the container a create_session execution of this step created with a
\* non-empty project argument
ProjectContainers ==
    {c \in containers' : /\ CreateStep
                         /\ c \notin containers
                         /\ c.kind = "session"
                         /\ last'.project # ""}
\* the directory is bound at /app
AppBound(c, dir) == Volume(dir, AppPath) \in c.volumes
\* the volumes the caller gave
Given(call) == Range(call.volumes)

\* C35 as claimed: a project that is a local directory is bound at /app, any
\* other is passed as MC_PROJECT_URL and is the host path of no mount.
C35_Claimed ==
    [][\A c \in ProjectContainers :
          IF IsLocalDirectory(last'.project)
          THEN AppBound(c, last'.project) /\ c.url = ""
          ELSE /\ c.url = last'.project
               /\ \A v \in c.volumes : v.host # last'.project]_vars

\* C35: a project that is not a local directory is passed as MC_PROJECT_URL
\* and is the host path of no mount; a project that is a local directory is
\* never passed as MC_PROJECT_URL, it is bound at /app only when mount_local
\* is set or the caller gave that mount, and with mount_local set and no
\* volumes given it is bound at /app.
C35_ProjectTreatment ==
    [][\A c \in ProjectContainers :
          IF IsLocalDirectory(last'.project)
          THEN /\ c.url = ""
               /\ AppBound(c, last'.project)
                     => (last'.mount \/ Volume(last'.project, AppPath) \in Given(last'))
               /\ (last'.mount /\ last'.volumes = <<>>) => AppBound(c, last'.project)
               /\ (~last'.mount /\ last'.volumes = <<>>) => c.volumes = {}
          ELSE /\ c.url = last'.project
               /\ \A v \in c.volumes : v.host # last'.project]_vars

\* a local directory given with mount_local unset: neither bound nor passed
\* as MC_PROJECT_URL; and a repository given, passed as MC_PROJECT_URL
C35_Witness ==
    /\ last.op = "create_session"
    /\ last.ret = "Session"
    /\ last.project = "/w/p1"
    /\ ~last.mount
    /\ \E c \in containers : c.id = last.cid /\ c.volumes = {} /\ c.url = ""

\* the mounts at /app the caller gave
GivenApp(call) == {v \in Given(call) : v.bind = AppPath}

\* C36 as claimed: for a local directory mounted automatically, a caller's
\* volume at /app is in the volumes of the container and is the only mount
\* at /app; when the caller gave no volume at /app the automatic mount is
\* in the volumes.
C36_Claimed ==
    [][\A c \in ProjectContainers :
          (IsLocalDirectory(last'.project) /\ last'.mount)
              => IF GivenApp(last') # {}
                 THEN /\ GivenApp(last') \subseteq c.volumes
                      /\ \A v \in c.volumes : v.bind = AppPath => v \in GivenApp(last')
                 ELSE AppBound(c, last'.project)]_vars

----------------------------------------------------------------------------
(* Sidecars of configured names only *)

\* the MCP containers a step created or started
Brought ==
    {c \in containers' : /\ c.kind = "mcp"
                         /\ c.status = "running"
                         /\ ~\E d \in containers : d.id = c.id /\ d.status = "running"}

\* C37: a step creates or starts an MCP container only for a name configured
\* as a docker or proxy MCP, and start_mcp, stop_mcp and restart_mcp of a
\* name that is not configured raise and change nothing in the runtime.
C37_Claimed ==
    [][/\ \A c \in Brought : TypeOf(mcps, c.alias) \in {"docker", "proxy"}
       /\ (/\ last'.op \in {"start_mcp", "stop_mcp", "restart_mcp"}
           /\ ~HasMcp(mcps, last'.name))
              => /\ last'.exc
                 /\ containers' = containers
                 /\ networks' = networks]_vars

----------------------------------------------------------------------------
(* Closing sessions and the sidecars *)

McpContainers(conts) == {c \in conts : c.kind = "mcp"}
\* a step of close_session or of close_all_sessions
CloseStep ==
    \/ closeAll' # closeAll
    \/ last'.op \in {"close_session", "close_all_sessions"}

\* C38: close_session and close_all_sessions, in every step of theirs, leave
\* the MCP containers, the networks and the MCP configuration list as they
\* were.
C38_CloseFrame ==
    [][CloseStep => /\ McpContainers(containers') = McpContainers(containers)
                    /\ networks' = networks
                    /\ mcps' = mcps]_vars

\* close_all_sessions closed a session, and the sidecar of the MCP that was
\* attached to it is still running, the networks still exist
C38_Witness ==
    /\ last.op = "close_all_sessions"
    /\ closeAll.phase = "returned"
    /\ closeAll.closed >= 1
    /\ SessionContainers(containers) = {}
    /\ \E c \in McpContainers(containers) : c.alias = "a" /\ c.status = "running"
    /\ {DefaultNetwork, McpNetwork} \subseteq networks

====
